---- MODULE Spec2Model ----
(***************************************************************************)
(* The broker process of the landscape client: the registration handler    *)
(* (landscape/broker/registration.py), the reactor signals it uses, the    *)
(* message store it queues into and the exchange it triggers.              *)
(***************************************************************************)
EXTENDS Integers, Sequences, FiniteSets, TLC

\* ------------------------------------------------------------------------
\* Bounds of the model
\* ------------------------------------------------------------------------
MaxId == 3          \* message ids the store hands out in one behaviour
MaxTitleLen == 19   \* longest in-memory computer title, in characters
MaxResponses == 2   \* RegistrationResponse objects created in one behaviour
MaxFileSize == 4    \* largest file, in bytes
MaxClock == 1       \* seconds the clock advances in one behaviour
MaxTime == 600      \* virtual seconds the monitor's reactor advances
MaxQueued == 2      \* messages the monitor queues in one behaviour
MaxCallbacks == 3   \* callbacks controller.persist makes before it returns

\* ------------------------------------------------------------------------
\* Python values
\* ------------------------------------------------------------------------
\* None, kept apart from every string the program handles
None == "<None>"

\* bool(v) of a string or None
Truthy(v) == v # None /\ v # ""

\* "%s" % v
Str(v) == IF v = None THEN "None" ELSE v

\* a bool kept where None can be kept too
Bool(b) == IF b THEN "True" ELSE "False"

\* a returned value with its Python type
Value(kind, value) == [kind |-> kind, value |-> value]
NoValue == Value("NoneType", None)

\* dict.get(key)
Get(d, key) == IF key \in DOMAIN d THEN d[key] ELSE None

\* ------------------------------------------------------------------------
\* Host environment read by the registration message
\* ------------------------------------------------------------------------
\* get_vm_info(root_path): markers is the set of marker paths that exist
\* under root_path; "cpuinfo:QEMU" and "sys_vendor:VMware" say that the file
\* exists and holds the substring looked for.
XenPaths == {"proc/sys/xen", "sys/bus/xen", "proc/xen"}

virt_info_vz_xen(markers) ==
    IF "proc/vz" \in markers THEN "openvz"
    ELSE IF XenPaths \cap markers # {} THEN "xen"
    ELSE ""

virt_info_cpu(markers, virt_info) ==
    IF "proc/cpuinfo" \in markers /\ "cpuinfo:QEMU" \in markers
    THEN "kvm" ELSE virt_info

\* a vendor check that keeps an earlier match
virt_info_vendor_first_wins(markers, virt_info) ==
    IF /\ "sys/class/dmi/id/sys_vendor" \in markers
       /\ "sys_vendor:VMware" \in markers
       /\ virt_info = ""
    THEN "vmware" ELSE virt_info

virt_info_vendor(markers, virt_info) ==
    IF "sys/class/dmi/id/sys_vendor" \in markers /\ "sys_vendor:VMware" \in markers
    THEN "vmware" ELSE virt_info

get_vm_info(markers) ==
    virt_info_vendor(markers, virt_info_cpu(markers, virt_info_vz_xen(markers)))

\* the markers of the host the broker runs on
HostMarkers == {"proc/xen", "proc/cpuinfo", "cpuinfo:QEMU"}

\* get_fqdn()
get_fqdn == "host.example.com"

\* get_container_info()
get_container_info == "lxc"

\* is_valid_tag_list(tags)
ValidTagLists == {None, "server,web"}
is_valid_tag_list(tags) == tags \in ValidTagLists

\* what get_juju_info(config) can return
JujuInfos == {None, "juju-info"}

\* ------------------------------------------------------------------------
\* Value sets the inputs are drawn from
\* ------------------------------------------------------------------------
Titles == {None, "", "web"}
AccountNames == {None, "", "acct"}
Otps == {None, "otp"}
CloneNames == {"db"}
RegisterTypes == {"register", "register-provisioned-machine"}

\* tags, access_group and registration_key only travel into the message
PlainExtras == [tags |-> None, access_group |-> None, registration_key |-> None]
ConfigExtras ==
    { PlainExtras,
      [tags |-> "server,web", access_group |-> "grp", registration_key |-> "key"],
      [tags |-> "bad tag!", access_group |-> None, registration_key |-> "key"] }

Config(title, account, otp, extras) ==
    [computer_title |-> title, account_name |-> account,
     provisioning_otp |-> otp, tags |-> extras.tags,
     access_group |-> extras.access_group,
     registration_key |-> extras.registration_key]

\* every title, account name and one-time-password, and every choice of
\* the extras for a computer that has a title and an account name
Configs ==
    { Config(t, a, o, PlainExtras) : t \in Titles, a \in AccountNames, o \in Otps }
    \cup { Config("web", "acct", o, x) : o \in Otps, x \in ConfigExtras }

VARIABLES
    secure_id,             \* Identity.secure_id (persisted)
    insecure_id,           \* Identity.insecure_id (persisted)
    config,                \* the live BrokerConfiguration
    disk_config,           \* the configuration as persisted on disk
    juju_data,             \* RegistrationHandler._juju_data
    self_should_register,  \* RegistrationHandler._should_register
    accepted_types,        \* types the message store accepts
    messages,              \* the message store's queue: <<[id, message]>>
    next_id,               \* next message id the store hands out
    responses,             \* the RegistrationResponse objects created so far
    clients,               \* the broker's registered client records
    client_accepted_types, \* types the exchange asks the server to accept
    server_uuid,           \* the server's UUID as the message store knows it
    op,                    \* the handler that ran last
    arg,                   \* the message or argument it was given
    trace,                 \* what it did, in order
    sent,                  \* the messages it sent through the exchange
    ret                    \* what it returned

\* the landscape-config process (landscape/configuration.py)
VARIABLES
    cli_pc,                \* where main() is: "start", "running" (inside
                           \* reactor.run()), "stopping", or how it ended
    cli_config,            \* the LandscapeSetupConfiguration main() loaded
    cli_trace,             \* the calls, prompts and prints of the run, in order
    cli_exit,              \* the exit status of the process, "none" while it runs
    deferreds,             \* the deferreds register() gathers, by operation
    caught                 \* the operations whose failure ran catch_all

\* a process using landscape/lib/fs.py, and the file system under it
VARIABLES
    fs_files,              \* the files by path: content (bytes), atime, mtime
    fs_now,                \* the clock, in seconds
    fs_op,                 \* the last call and its arguments
    fs_ret,                \* the text it returned, <<>> when it returns none
    fs_raised              \* the error it raised, "none" when it returned

\* the monitor process with the storage-usage plugin (CephUsage)
VARIABLES
    ceph_active,           \* CephUsage.active
    ceph_has_rados,        \* CephUsage._has_rados
    ceph_config,           \* CephUsage._ceph_config, a path or None
    ceph_ring_id,          \* CephUsage._ceph_ring_id
    ceph_usage_points,     \* CephUsage._ceph_usage_points
    ceph_persist,          \* what the plugin's accumulator keeps, by key
    ceph_stats,            \* the statistics of the last call of _handle_usage
    mon_time,              \* the virtual time of the monitor's reactor
    mon_accepted_types,    \* the types the message store accepts
    mon_messages,          \* the messages the monitor queued, in order
    mon_op,                \* the last step of the monitor
    mon_trace              \* what it called and logged

\* a caller of get_vm_info (landscape/lib/vm_info.py)
VARIABLES
    vm_markers,            \* the marker paths that exist under root_path
    vm_op,                 \* the last call
    vm_ret                 \* what it returned

\* a caller of the message schemas (landscape/message_schemas.py)
VARIABLES
    sch_type,              \* the type of the message at hand
    sch_payload,           \* its fields, each with the kind of its value
    sch_op,                \* the last call
    sch_ret                \* whether the message validated

\* the desktop settings application (landscape/ui/controller/app.py)
VARIABLES
    ui_pc,                 \* where setup_ui stands
    ui_asynchronous,       \* the asynchronous argument of setup_ui
    ui_trace,              \* what setup_ui called, in order
    ui_stderr              \* what it wrote to sys.stderr

brokervars == <<clients, client_accepted_types, server_uuid>>

\* the broker process
processvars == <<secure_id, insecure_id, config, disk_config, juju_data,
                 self_should_register, accepted_types, messages, next_id,
                 responses, clients, client_accepted_types, server_uuid,
                 op, arg, trace, sent, ret>>

clivars == <<cli_pc, cli_config, cli_trace, cli_exit, deferreds, caught>>

fsvars == <<fs_files, fs_now, fs_op, fs_ret, fs_raised>>

cephvars == <<ceph_active, ceph_has_rados, ceph_config, ceph_ring_id,
              ceph_usage_points, ceph_persist, ceph_stats, mon_time,
              mon_accepted_types, mon_messages, mon_op, mon_trace>>

vmvars == <<vm_markers, vm_op, vm_ret>>

schemavars == <<sch_type, sch_payload, sch_op, sch_ret>>

uivars == <<ui_pc, ui_asynchronous, ui_trace, ui_stderr>>

\* the callers of the library modules and the desktop application
libvars == <<vmvars, schemavars, uivars>>

\* everything outside the broker process, outside landscape-config, outside
\* the process using the file-system utilities, outside the monitor
outside == <<clivars, fsvars, cephvars, libvars>>
notcli == <<processvars, fsvars, cephvars, libvars>>
notfs == <<processvars, clivars, cephvars, libvars>>
notmonitor == <<processvars, clivars, fsvars, libvars>>

vars == <<processvars, clivars, fsvars, cephvars, libvars>>

\* landscape-config has not been run
CliIdle ==
    /\ cli_pc = "idle"
    /\ cli_config = None
    /\ cli_trace = <<>>
    /\ cli_exit = "none"
    /\ deferreds = <<>>
    /\ caught = <<>>

\* the call record of fs_op
Call(name, path, content, limited, limit) ==
    [name |-> name, path |-> path, content |-> content,
     limited |-> limited, limit |-> limit]

\* no file written, no call made
FsIdle ==
    /\ fs_files = <<>>
    /\ fs_now = 0
    /\ fs_op = Call("init", "", <<>>, FALSE, 0)
    /\ fs_ret = <<>>
    /\ fs_raised = "none"

\* get_vm_info was not called
VmIdle ==
    /\ vm_markers = {}
    /\ vm_op = "idle"
    /\ vm_ret = ""

\* no message was validated
SchemaIdle ==
    /\ sch_type = ""
    /\ sch_payload = <<>>
    /\ sch_op = "idle"
    /\ sch_ret = FALSE

\* the desktop application was not activated
UiIdle ==
    /\ ui_pc = "idle"
    /\ ui_asynchronous = TRUE
    /\ ui_trace = <<>>
    /\ ui_stderr = <<>>

\* no library module is called, no desktop application runs
LibIdle == VmIdle /\ SchemaIdle /\ UiIdle

\* no statistics were handled yet
NoStats == [kb |-> 0, kb_avail |-> 0, kb_used |-> 0]

\* no monitor runs
MonitorIdle ==
    /\ ceph_active = FALSE
    /\ ceph_has_rados = FALSE
    /\ ceph_config = None
    /\ ceph_ring_id = None
    /\ ceph_usage_points = <<>>
    /\ ceph_persist = <<>>
    /\ ceph_stats = NoStats
    /\ mon_time = 0
    /\ mon_accepted_types = {}
    /\ mon_messages = <<>>
    /\ mon_op = "idle"
    /\ mon_trace = <<>>

\* ------------------------------------------------------------------------
\* Message store
\* ------------------------------------------------------------------------
accepts(type) == type \in accepted_types

\* a store that queues the new message in front
add_in_front(queue, id, message) ==
    <<[id |-> id, message |-> message]>> \o queue

\* add(message): the queue after the message is appended under a fresh id
add(queue, id, message) == Append(queue, [id |-> id, message |-> message])

\* delete_all_messages()
delete_all_messages(queue) == <<>>

is_pending(queue, id) == \E i \in DOMAIN queue : queue[i].id = id

get_pending_messages(queue) == [i \in DOMAIN queue |-> queue[i].message]

\* ------------------------------------------------------------------------
\* RegistrationResponse and the reactor signals it subscribes to
\* ------------------------------------------------------------------------
\* a response that subscribes to "registration-done" only
NewResponse_done_only == [deferred |-> "unresolved", done_id |-> TRUE,
                          failed_id |-> FALSE, already_called |-> 0]

\* RegistrationResponse.__init__: both calls subscribed, deferred not fired
NewResponse == [deferred |-> "unresolved", done_id |-> TRUE,
                failed_id |-> TRUE, already_called |-> 0]

\* Deferred.callback / Deferred.errback: a second firing raises
\* AlreadyCalledError and leaves the result alone
resolve(r, result) ==
    IF r.deferred = "unresolved"
    THEN [r EXCEPT !.deferred = result]
    ELSE [r EXCEPT !.already_called = IF @ < 2 THEN @ + 1 ELSE @]

\* a _cancel_calls that leaves the "registration-failed" call subscribed
cancel_calls_done_only(r) == [r EXCEPT !.done_id = FALSE]

cancel_calls(r) == [r EXCEPT !.done_id = FALSE, !.failed_id = FALSE]

response_done(r) == cancel_calls(resolve(r, "success"))

\* a _failed that leaves its calls subscribed
response_failed_keeps_calls(r) == resolve(r, "InvalidCredentialsError")

response_failed(r) == cancel_calls(resolve(r, "InvalidCredentialsError"))

\* reactor.fire(event): every handler subscribed to the event runs
fire(rs, event) ==
    [i \in DOMAIN rs |->
        IF event = "registration-done" /\ rs[i].done_id THEN response_done(rs[i])
        ELSE IF event = "registration-failed" /\ rs[i].failed_id
             THEN response_failed(rs[i])
        ELSE rs[i]]

\* ------------------------------------------------------------------------
\* RegistrationHandler
\* ------------------------------------------------------------------------
\* should_register() with the one-time-password branch left out
should_register_without_otp ==
    IF Truthy(secure_id) THEN FALSE
    ELSE Truthy(config.computer_title) /\ Truthy(config.account_name)
         /\ accepts("register")

\* should_register() asking only whether the store accepts "register"
should_register_without_account ==
    IF Truthy(secure_id) THEN FALSE
    ELSE IF Truthy(config.provisioning_otp)
         THEN accepts("register-provisioned-machine")
    ELSE accepts("register")

\* a should_register() that forgets the secure id
should_register_despite_secure_id ==
    IF Truthy(config.provisioning_otp)
    THEN accepts("register-provisioned-machine")
    ELSE Truthy(config.computer_title) /\ Truthy(config.account_name)
         /\ accepts("register")

should_register ==
    IF Truthy(secure_id) THEN FALSE
    ELSE IF Truthy(config.provisioning_otp)
         THEN accepts("register-provisioned-machine")
    ELSE Truthy(config.computer_title) /\ Truthy(config.account_name)
         /\ accepts("register")

\* the broker as it starts: nothing registered, nothing queued
Broker(cfg, types, uuid) ==
    /\ secure_id = None
    /\ insecure_id = None
    /\ config = cfg
    /\ disk_config = cfg
    /\ juju_data = None
    /\ self_should_register = None
    /\ accepted_types = types
    /\ clients = {}
    /\ client_accepted_types = {}
    /\ server_uuid = uuid
    /\ messages = <<>>
    /\ next_id = 1
    /\ responses = <<>>
    /\ op = "init"
    /\ arg = None
    /\ trace = <<>>
    /\ sent = <<>>
    /\ ret = NoValue

\* the broker starts, and nothing else runs
Start(cfg, types, uuid) ==
    Broker(cfg, types, uuid) /\ CliIdle /\ FsIdle /\ MonitorIdle /\ LibIdle

Init == \E cfg \in Configs : Start(cfg, {}, None)

\* RegistrationHandler.register(); calls is what the caller logged before
register(calls) ==
    /\ Len(responses) < MaxResponses
    /\ secure_id' = None
    /\ insecure_id' = None
    /\ responses' = Append(responses, NewResponse)
    /\ trace' = calls \o <<"set:secure_id", "set:insecure_id",
                            "call_on:registration-done",
                            "call_on:registration-failed", "exchange">>
    /\ sent' = <<>>
    /\ ret' = Value("Deferred", Len(responses) + 1)
    /\ UNCHANGED brokervars
    /\ UNCHANGED <<config, disk_config, juju_data, self_should_register,
                   accepted_types, messages, next_id>>

Register == register(<<>>) /\ op' = "register" /\ arg' = None

\* the dict built at registration.py:190-198
base_message(tags) ==
    LET m == [type |-> None, hostname |-> get_fqdn,
              account_name |-> config.account_name,
              registration_password |-> None, tags |-> tags]
             @@ ("vm-info" :> get_vm_info(HostMarkers))
    IN IF Truthy(config.access_group)
       THEN m @@ ("access_group" :> config.access_group) ELSE m

\* the message of a normal computer, registration.py:209-215
account_message(tags) ==
    LET m == ("container-info" :> get_container_info)
             @@ [base_message(tags) EXCEPT
                    !.type = "register",
                    !.registration_password = config.registration_key]
             @@ [computer_title |-> config.computer_title]
    IN IF juju_data # None THEN m @@ ("juju-info-list" :> juju_data) ELSE m

\* the message of a newly provisioned machine, registration.py:222-223
otp_message == [type |-> "register-provisioned-machine",
                otp |-> config.provisioning_otp]

\* a pre-exchange that purges before it looks at should_register()
purged_always(eligible, queue) == delete_all_messages(queue)

\* a pre-exchange that forgets the purge
purged_never(eligible, queue) == queue

\* the queue once _handle_pre_exchange is past its purge: untouched when
\* the handler returned early, registration.py:173-184
purged(eligible, queue) ==
    IF eligible THEN delete_all_messages(queue) ELSE queue

\* what the purge leaves in the trace: the call, and one unlink for each
\* message it removes
purge_trace(eligible, queue) ==
    IF eligible
    THEN <<"delete_all_messages">> \o [i \in DOMAIN queue |-> "unlink"]
    ELSE <<>>

\* a pre-exchange that goes on to its message when it should not register
sends_registration_unasked(eligible, failed) == ~failed

\* the handler reaches self._exchange.send(message): it did not return at
\* registration.py:174-175 and found a message to build
sends_registration(eligible, failed) == eligible /\ ~failed

\* RegistrationHandler._handle_pre_exchange, on reactor.fire("pre-exchange")
HandlePreExchange ==
    LET eligible == should_register
        valid == is_valid_tag_list(config.tags)
        tags == IF valid THEN config.tags ELSE None
        failed == ~Truthy(config.account_name) /\ ~Truthy(config.provisioning_otp)
        message == IF Truthy(config.account_name) THEN account_message(tags)
                   ELSE otp_message
        sends == sends_registration(eligible, failed)
    IN /\ sends => next_id <= MaxId
       /\ self_should_register' = Bool(eligible)
       /\ messages' = IF sends
                      THEN add(purged(eligible, messages), next_id, message)
                      ELSE purged(eligible, messages)
       /\ next_id' = IF sends THEN next_id + 1 ELSE next_id
       /\ responses' = IF eligible /\ failed
                       THEN fire(responses, "registration-failed")
                       ELSE responses
       /\ op' = "pre-exchange"
       /\ arg' = None
       /\ trace' = purge_trace(eligible, messages)
                   \o (IF eligible /\ ~valid THEN <<"log:invalid-tags">> ELSE <<>>)
                   \o (IF sends THEN <<"send">>
                       ELSE IF eligible THEN <<"fire:registration-failed">>
                       ELSE <<>>)
       /\ sent' = IF sends THEN <<message>> ELSE <<>>
       /\ ret' = NoValue
       /\ UNCHANGED brokervars
       /\ UNCHANGED <<secure_id, insecure_id, config, disk_config, juju_data,
                      accepted_types>>

\* an exchange-done that asks for an exchange whenever it should register
forces_exchange_whenever_eligible(now, snapshot) == now

\* an exchange-done that never asks for an exchange
forces_exchange_never(now, snapshot) == FALSE

\* the condition of registration.py:153: should_register() now, and not
\* the value the last pre-exchange stored
forces_exchange(now, snapshot) == now /\ snapshot # "True"

\* RegistrationHandler._handle_exchange_done, on reactor.fire("exchange-done")
HandleExchangeDone ==
    /\ op' = "exchange-done"
    /\ arg' = None
    /\ trace' = IF forces_exchange(should_register, self_should_register)
                THEN <<"exchange">> ELSE <<>>
    /\ sent' = <<>>
    /\ ret' = NoValue
    /\ UNCHANGED brokervars
    /\ UNCHANGED <<secure_id, insecure_id, config, disk_config, juju_data,
                   self_should_register, accepted_types, messages, next_id,
                   responses>>

\* the set-id messages of the server: an id, which the wire contract
\* requires, and an insecure-id or none
SetIdMessages ==
    { ("id" :> "A") }
    \cup { ("id" :> i) @@ ("insecure-id" :> "7") : i \in {"B", ""} }

\* a set-id that adopts the insecure id only
set_id_secure_dropped(message) == None

\* the ids _handle_set_id adopts, registration.py:245-246
set_id_secure(message) == Get(message, "id")

\* a set-id that keeps the old insecure id when the message has none
set_id_insecure_kept(message) ==
    IF "insecure-id" \in DOMAIN message THEN message["insecure-id"]
    ELSE insecure_id

set_id_insecure(message) == Get(message, "insecure-id")

\* RegistrationHandler._handle_set_id(message)
HandleSetId(message) ==
    /\ secure_id' = set_id_secure(message)
    /\ insecure_id' = set_id_insecure(message)
    /\ responses' = fire(fire(responses, "registration-done"),
                         "resynchronize-clients")
    /\ op' = "set-id"
    /\ arg' = message
    /\ trace' = (IF Truthy(secure_id) THEN <<"log:overwriting">> ELSE <<>>)
                \o <<"set:secure_id", "set:insecure_id",
                     "fire:registration-done", "fire:resynchronize-clients">>
    /\ sent' = <<>>
    /\ ret' = NoValue
    /\ UNCHANGED brokervars
    /\ UNCHANGED <<config, disk_config, juju_data, self_should_register,
                   accepted_types, messages, next_id>>

\* a _handle_registration that takes every info for a failure
registration_failed_any_info(info) == TRUE

\* the test of registration.py:254
registration_failed(info) == info = "unknown-account"

\* RegistrationHandler._handle_registration(message)
HandleRegistration(message) ==
    /\ responses' = IF registration_failed(message.info)
                    THEN fire(responses, "registration-failed") ELSE responses
    /\ op' = "registration"
    /\ arg' = message
    /\ trace' = IF registration_failed(message.info)
                THEN <<"fire:registration-failed">> ELSE <<>>
    /\ sent' = <<>>
    /\ ret' = NoValue
    /\ UNCHANGED brokervars
    /\ UNCHANGED <<secure_id, insecure_id, config, disk_config, juju_data,
                   self_should_register, accepted_types, messages, next_id>>

\* a clone title that never compares the clone's name with the own title
clone_title_always_of(title, clone) ==
    Str(title) \o " (clone of " \o Str(clone) \o ")"

\* the title _handle_unknown_id gives a clone, registration.py:269-273
clone_title(title, clone) ==
    IF clone = title THEN Str(title) \o " (clone)"
    ELSE Str(title) \o " (clone of " \o Str(clone) \o ")"

\* the unknown-id messages of the server: a clone-of name or none
UnknownIdMessages ==
    { <<>> } \cup { ("clone-of" :> c) :
                      c \in CloneNames \cup ({config.computer_title} \ {None}) }

\* RegistrationHandler._handle_unknown_id(message)
HandleUnknownId(message) ==
    LET clone == Get(message, "clone-of")
        title == IF clone = None THEN config.computer_title
                 ELSE clone_title(config.computer_title, clone)
    IN /\ Len(Str(title)) <= MaxTitleLen
       /\ config' = [config EXCEPT !.computer_title = title]
       /\ secure_id' = None
       /\ insecure_id' = None
       /\ op' = "unknown-id"
       /\ arg' = message
       /\ trace' = (IF clone = None THEN <<>> ELSE <<"set:computer_title">>)
                   \o <<"set:secure_id", "set:insecure_id">>
       /\ sent' = <<>>
       /\ ret' = NoValue
       /\ UNCHANGED brokervars
       /\ UNCHANGED <<disk_config, juju_data, self_should_register,
                      accepted_types, messages, next_id, responses>>

\* RegistrationHandler._get_juju_data, on reactor.fire("run"): the reactor
\* fires "run" once, as it starts, before any exchange
GetJujuData(juju_info) ==
    /\ op = "init"
    /\ juju_data' = IF juju_info = None THEN juju_data ELSE juju_info
    /\ op' = "run"
    /\ arg' = juju_info
    /\ trace' = <<>>
    /\ sent' = <<>>
    /\ ret' = NoValue
    /\ UNCHANGED brokervars
    /\ UNCHANGED <<secure_id, insecure_id, config, disk_config,
                   self_should_register, accepted_types, messages, next_id,
                   responses>>

\* ------------------------------------------------------------------------
\* The exchange with the server
\* ------------------------------------------------------------------------
\* MessageStore.set_accepted_types(types), from the server's reply
SetAcceptedTypes(types) ==
    /\ types # accepted_types
    /\ accepted_types' = types
    /\ op' = "set-accepted-types"
    /\ arg' = types
    /\ trace' = <<>>
    /\ sent' = <<>>
    /\ ret' = NoValue
    /\ UNCHANGED brokervars
    /\ UNCHANGED <<secure_id, insecure_id, config, disk_config, juju_data,
                   self_should_register, messages, next_id, responses>>

\* the server acknowledges the first count queued messages
Deliver(count) ==
    /\ count \in 1..Len(messages)
    /\ messages' = SubSeq(messages, count + 1, Len(messages))
    /\ op' = "deliver"
    /\ arg' = count
    /\ trace' = <<>>
    /\ sent' = <<>>
    /\ ret' = NoValue
    /\ UNCHANGED brokervars
    /\ UNCHANGED <<secure_id, insecure_id, config, disk_config, juju_data,
                   self_should_register, accepted_types, next_id, responses>>

\* ------------------------------------------------------------------------
\* The broker's commands for its sibling processes
\* ------------------------------------------------------------------------
regvars == <<secure_id, insecure_id, config, disk_config, juju_data,
             self_should_register, responses>>
storevars == <<accepted_types, messages, next_id>>

Commands == {"Ping", "RegisterClient", "SendMessage", "IsMessagePending",
             "StopClients", "ReloadConfiguration", "Register",
             "GetAcceptedMessageTypes", "GetServerUuid",
             "RegisterClientAcceptedMessageType"}

\* the broker method the responder of each command calls
Responder ==
    [Ping |-> "ping", RegisterClient |-> "register_client",
     SendMessage |-> "send_message",
     IsMessagePending |-> "is_message_pending",
     StopClients |-> "stop_clients",
     ReloadConfiguration |-> "reload_configuration",
     Register |-> "register",
     GetAcceptedMessageTypes |-> "get_accepted_message_types",
     GetServerUuid |-> "get_server_uuid",
     RegisterClientAcceptedMessageType |-> "register_client_accepted_message_type"]

\* the kind of the field each command's response declares, None for an
\* empty response
ResponseKind ==
    [Ping |-> "Boolean", RegisterClient |-> None, SendMessage |-> "Integer",
     IsMessagePending |-> "Boolean", StopClients |-> None,
     ReloadConfiguration |-> None, Register |-> None,
     GetAcceptedMessageTypes |-> "Types", GetServerUuid |-> "StringOrNone",
     RegisterClientAcceptedMessageType |-> None]

\* a responder that calls the broker method a second time
dispatch_twice(command) ==
    <<"call:" \o Responder[command], "call:" \o Responder[command]>>

\* the responder's call of the broker method
dispatch(command) == <<"call:" \o Responder[command]>>

ClientNames == <<"manager", "monitor">>
Protocols == {"conn1", "conn2"}
SiblingMessages == { [type |-> "test"], [type |-> "test", greeting |-> "hi"] }
SiblingTypes == {"type"}

\* the message types in sorted order
SortedTypes == <<"register", "register-provisioned-machine", "test">>
sorted(types) == SelectSeq(SortedTypes, LAMBDA t : t \in types)

Ping ==
    /\ op' = "Ping"
    /\ arg' = None
    /\ trace' = dispatch("Ping")
    /\ sent' = <<>>
    /\ ret' = Value("bool", TRUE)
    /\ UNCHANGED <<regvars, storevars, brokervars>>

\* a client record that holds the broker's listening channel
client_record_listener(name, protocol) ==
    [name |-> name, protocol |-> "listener"]

\* the record the broker keeps of a client: its name and a handle to the
\* channel its RegisterClient came over
client_record(name, protocol) == [name |-> name, protocol |-> protocol]

\* RegisterClient(name), protocol being the channel the command came over
RegisterClient(name, protocol) ==
    /\ clients' = {c \in clients : c.name # name}
                  \cup {client_record(name, protocol)}
    /\ op' = "RegisterClient"
    /\ arg' = [name |-> name, protocol |-> protocol]
    /\ trace' = dispatch("RegisterClient")
    /\ sent' = <<>>
    /\ ret' = NoValue
    /\ UNCHANGED <<regvars, storevars, client_accepted_types, server_uuid>>

\* SendMessage(message, urgent) of a message the store takes
SendMessage(message, urgent) ==
    /\ accepts(message.type)
    /\ next_id <= MaxId
    /\ messages' = add(messages, next_id, message)
    /\ next_id' = next_id + 1
    /\ op' = "SendMessage"
    /\ arg' = [message |-> message, urgent |-> urgent]
    /\ trace' = dispatch("SendMessage") \o <<"send">>
                \o (IF urgent THEN <<"exchange">> ELSE <<>>)
    /\ sent' = <<message>>
    /\ ret' = Value("int", next_id)
    /\ UNCHANGED <<regvars, accepted_types, brokervars>>

IsMessagePending(message_id) ==
    /\ op' = "IsMessagePending"
    /\ arg' = message_id
    /\ trace' = dispatch("IsMessagePending")
    /\ sent' = <<>>
    /\ ret' = Value("bool", is_pending(messages, message_id))
    /\ UNCHANGED <<regvars, storevars, brokervars>>

StopClients ==
    /\ op' = "StopClients"
    /\ arg' = None
    /\ trace' = dispatch("StopClients")
                \o [i \in DOMAIN SelectSeq(ClientNames,
                                   LAMBDA n : \E c \in clients : c.name = n) |->
                      "exit:" \o SelectSeq(ClientNames,
                                   LAMBDA n : \E c \in clients : c.name = n)[i]]
    /\ sent' = <<>>
    /\ ret' = NoValue
    /\ UNCHANGED <<regvars, storevars, brokervars>>

ReloadConfiguration ==
    /\ config' = disk_config
    /\ op' = "ReloadConfiguration"
    /\ arg' = None
    /\ trace' = dispatch("ReloadConfiguration")
    /\ sent' = <<>>
    /\ ret' = NoValue
    /\ UNCHANGED <<secure_id, insecure_id, disk_config, juju_data,
                   self_should_register, responses, storevars, brokervars>>

\* Register: the registration handler's register()
CommandRegister ==
    register(dispatch("Register")) /\ op' = "Register" /\ arg' = None

GetAcceptedMessageTypes ==
    /\ op' = "GetAcceptedMessageTypes"
    /\ arg' = None
    /\ trace' = dispatch("GetAcceptedMessageTypes")
    /\ sent' = <<>>
    /\ ret' = Value("list", sorted(accepted_types))
    /\ UNCHANGED <<regvars, storevars, brokervars>>

GetServerUuid ==
    /\ op' = "GetServerUuid"
    /\ arg' = None
    /\ trace' = dispatch("GetServerUuid")
    /\ sent' = <<>>
    /\ ret' = IF server_uuid = None THEN NoValue ELSE Value("str", server_uuid)
    /\ UNCHANGED <<regvars, storevars, brokervars>>

RegisterClientAcceptedMessageType(type) ==
    /\ client_accepted_types' = client_accepted_types \cup {type}
    /\ op' = "RegisterClientAcceptedMessageType"
    /\ arg' = type
    /\ trace' = dispatch("RegisterClientAcceptedMessageType")
    /\ sent' = <<>>
    /\ ret' = NoValue
    /\ UNCHANGED <<regvars, storevars, clients, server_uuid>>

\* ------------------------------------------------------------------------
\* The registration handler between the server and the message store
\* ------------------------------------------------------------------------
Next ==
    \/ HandlePreExchange /\ UNCHANGED outside
    \/ HandleExchangeDone /\ UNCHANGED outside
    \/ \E message \in SetIdMessages : HandleSetId(message) /\ UNCHANGED outside
    \/ \E info \in {"unknown-account", "other"} : HandleRegistration([info |-> info]) /\ UNCHANGED outside
    \/ \E message \in UnknownIdMessages : HandleUnknownId(message) /\ UNCHANGED outside
    \/ \E juju_info \in JujuInfos : GetJujuData(juju_info) /\ UNCHANGED outside
    \/ \E types \in SUBSET RegisterTypes : SetAcceptedTypes(types) /\ UNCHANGED outside

Spec == Init /\ [][Next]_vars

\* ------------------------------------------------------------------------
\* register() and the signals that answer it
\* ------------------------------------------------------------------------
InitResponse ==
    \E cfg \in { Config("web", "acct", None, PlainExtras),
                 Config(None, None, None, PlainExtras) } : Start(cfg, {}, None)

NextResponse ==
    \/ Register /\ UNCHANGED outside
    \/ HandlePreExchange /\ UNCHANGED outside
    \/ \E message \in SetIdMessages : HandleSetId(message) /\ UNCHANGED outside
    \/ \E info \in {"unknown-account", "other"} : HandleRegistration([info |-> info]) /\ UNCHANGED outside
    \/ HandleUnknownId(<<>>) /\ UNCHANGED outside
    \/ \E types \in {{}, {"register"}} : SetAcceptedTypes(types) /\ UNCHANGED outside

SpecResponse == InitResponse /\ [][NextResponse]_vars

\* ------------------------------------------------------------------------
\* The message store between the siblings, the registration and the server
\* ------------------------------------------------------------------------
InitBroker ==
    \E cfg \in { Config("web", "acct", None, PlainExtras),
                 Config("web", "acct", "otp", PlainExtras),
                 Config(None, "", "otp", PlainExtras) } :
        Start(cfg, {"test"}, None)

NextBroker ==
    \/ \E message \in SiblingMessages, urgent \in BOOLEAN :
          SendMessage(message, urgent) /\ UNCHANGED outside
    \/ \E message_id \in 1..(MaxId + 1) : IsMessagePending(message_id) /\ UNCHANGED outside
    \/ HandlePreExchange /\ UNCHANGED outside
    \/ HandleExchangeDone /\ UNCHANGED outside
    \/ \E count \in 1..MaxId : Deliver(count) /\ UNCHANGED outside
    \/ HandleSetId(("id" :> "A")) /\ UNCHANGED outside
    \/ \E types \in {{"test"}, {"test", "register"}, {"test"} \cup RegisterTypes} :
          SetAcceptedTypes(types) /\ UNCHANGED outside

SpecBroker == InitBroker /\ [][NextBroker]_vars

\* ------------------------------------------------------------------------
\* The commands as a connected sibling calls them
\* ------------------------------------------------------------------------
InitCommands ==
    \E uuid \in {None, "uuid"} :
        Start(Config("web", "acct", None, PlainExtras), {"test"}, uuid)

NextCommands ==
    \/ Ping /\ UNCHANGED outside
    \/ \E i \in DOMAIN ClientNames, protocol \in Protocols :
          RegisterClient(ClientNames[i], protocol) /\ UNCHANGED outside
    \/ \E message \in SiblingMessages, urgent \in BOOLEAN :
          SendMessage(message, urgent) /\ UNCHANGED outside
    \/ \E message_id \in 1..(MaxId + 1) : IsMessagePending(message_id) /\ UNCHANGED outside
    \/ StopClients /\ UNCHANGED outside
    \/ ReloadConfiguration /\ UNCHANGED outside
    \/ CommandRegister /\ UNCHANGED outside
    \/ GetAcceptedMessageTypes /\ UNCHANGED outside
    \/ GetServerUuid /\ UNCHANGED outside
    \/ \E type \in SiblingTypes : RegisterClientAcceptedMessageType(type) /\ UNCHANGED outside
    \/ HandleUnknownId(("clone-of" :> "db")) /\ UNCHANGED outside

SpecCommands == InitCommands /\ [][NextCommands]_vars

\* ------------------------------------------------------------------------
\* Properties of the registration handler
\* ------------------------------------------------------------------------
Count(seq, x) == Cardinality({i \in DOMAIN seq : seq[i] = x})

Fired(seq) == SelectSeq(seq, LAMBDA e : e \in {"fire:registration-done",
                  "fire:registration-failed", "fire:resynchronize-clients"})

\* C1: should_register() is false whenever secure_id is set; otherwise, with
\* a provisioning one-time-password configured, it is exactly whether the
\* store accepts "register-provisioned-machine", whatever computer_title and
\* account_name are; otherwise it is true exactly when computer_title and
\* account_name are both non-empty and the store accepts "register".  The
\* value is read where the pre-exchange handler stores it.
C1_ShouldRegister ==
    op = "pre-exchange" =>
        self_should_register =
            Bool(IF Truthy(secure_id) THEN FALSE
                 ELSE IF Truthy(config.provisioning_otp)
                      THEN "register-provisioned-machine" \in accepted_types
                 ELSE /\ config.computer_title \notin {None, ""}
                      /\ config.account_name \notin {None, ""}
                      /\ "register" \in accepted_types)

\* a provisioned machine without title and account name found eligible
C1_Witness ==
    /\ op = "pre-exchange"
    /\ self_should_register = "True"
    /\ Truthy(config.provisioning_otp)
    /\ ~Truthy(config.computer_title)
    /\ ~Truthy(config.account_name)

\* the case C2 and its amendment are about: no secure_id, a title and an
\* account name, and a store that accepts "register"
C2_Case ==
    /\ ~Truthy(secure_id)
    /\ Truthy(config.computer_title)
    /\ Truthy(config.account_name)
    /\ "register" \in accepted_types

\* what C2 says the tick does: it purges, then sends one "register" message
\* with the host name, the account name and the virtualization info, and
\* nothing queued before is queued after
C2_Effect ==
    /\ trace' # <<>>
    /\ trace'[1] = "delete_all_messages"
    /\ trace'[Len(trace')] = "send"
    /\ Count(trace', "send") = 1
    /\ Len(sent') = 1
    /\ sent'[1].type = "register"
    /\ sent'[1].hostname = get_fqdn
    /\ sent'[1].account_name = config.account_name
    /\ sent'[1]["vm-info"] = get_vm_info(HostMarkers)
    /\ get_pending_messages(messages') = sent'
    /\ \A i \in DOMAIN messages : ~is_pending(messages', messages[i].id)

\* C2 as stated: in that case, every pre-exchange tick purges the queue and
\* sends exactly one "register" message
C2_AsStated ==
    [][(op' = "pre-exchange" /\ C2_Case) => C2_Effect]_vars

\* C2, amended: the same when no provisioning one-time-password is
\* configured
C2_PurgeThenRegister ==
    [][(op' = "pre-exchange" /\ C2_Case /\ ~Truthy(config.provisioning_otp))
          => C2_Effect]_vars

\* a tick that removed queued messages and sent the registration
C2_Witness ==
    /\ op = "pre-exchange"
    /\ C2_Case
    /\ ~Truthy(config.provisioning_otp)
    /\ Count(trace, "unlink") >= 2
    /\ Len(sent) = 1

\* the case of C3: no title, no account name, no one-time-password
C3_Case ==
    /\ ~Truthy(config.computer_title)
    /\ ~Truthy(config.account_name)
    /\ ~Truthy(config.provisioning_otp)

\* C3 as stated: in that case should_register() is false and the
\* pre-exchange tick fires "registration-failed" and sends nothing
C3_AsStated ==
    (op = "pre-exchange" /\ C3_Case) =>
        /\ self_should_register = "False"
        /\ Fired(trace) = <<"fire:registration-failed">>
        /\ sent = <<>>

\* C3, amended: in that case should_register() is false and the
\* pre-exchange tick fires no signal and sends no message
C3_NothingFiredNothingSent ==
    (op = "pre-exchange" /\ C3_Case) =>
        /\ self_should_register = "False"
        /\ trace = <<>>
        /\ sent = <<>>

\* such a tick, with the store accepting both registration types
C3_Witness ==
    /\ op = "pre-exchange"
    /\ C3_Case
    /\ accepted_types = RegisterTypes
    /\ secure_id = None

\* C4: a set-id message sets secure_id to its id and insecure_id to its
\* insecure-id (None when it has none), whatever they were, and only then
\* fires "registration-done" once and "resynchronize-clients" once, in that
\* order.
C4_SetId ==
    op = "set-id" =>
        /\ secure_id = arg["id"]
        /\ insecure_id = (IF "insecure-id" \in DOMAIN arg
                          THEN arg["insecure-id"] ELSE None)
        /\ Fired(trace) = <<"fire:registration-done",
                            "fire:resynchronize-clients">>
        /\ Len(trace) >= 4
        /\ SubSeq(trace, Len(trace) - 3, Len(trace)) =
              <<"set:secure_id", "set:insecure_id",
                "fire:registration-done", "fire:resynchronize-clients">>

\* a set-id without insecure-id that overwrote a secure id
C4_Witness ==
    /\ op = "set-id"
    /\ trace[1] = "log:overwriting"
    /\ "insecure-id" \notin DOMAIN arg
    /\ secure_id = "A"

\* C5: an unknown-id message clears secure_id and insecure_id, with or
\* without clone-of; with clone-of X the title T becomes "T (clone)" if X is
\* T and "T (clone of X)" otherwise, without it the title stays; the handler
\* fires no signal and sends no message.
C5_UnknownId ==
    [][op' = "unknown-id" =>
          /\ secure_id' = None
          /\ insecure_id' = None
          /\ config'.computer_title =
                (IF "clone-of" \notin DOMAIN arg' THEN config.computer_title
                 ELSE IF arg'["clone-of"] = config.computer_title
                      THEN Str(config.computer_title) \o " (clone)"
                 ELSE Str(config.computer_title) \o " (clone of "
                        \o arg'["clone-of"] \o ")")
          /\ Fired(trace') = <<>>
          /\ sent' = <<>>
          /\ messages' = messages
          /\ responses' = responses]_vars

\* a registered clone told that it is a clone of its own title
C5_Witness ==
    /\ op = "unknown-id"
    /\ "clone-of" \in DOMAIN arg
    /\ config.computer_title = "web (clone)"
    /\ "set:secure_id" \in {trace[i] : i \in DOMAIN trace}
    /\ secure_id = None

\* ------------------------------------------------------------------------
\* Properties of register() and its response
\* ------------------------------------------------------------------------
Has(seq, x) == \E i \in DOMAIN seq : seq[i] = x

\* the result the signals fired in a step give a response not yet resolved
Outcome(tr) ==
    IF Has(tr, "fire:registration-done") THEN "success"
    ELSE IF Has(tr, "fire:registration-failed") THEN "InvalidCredentialsError"
    ELSE "unresolved"

\* C6: register() clears secure_id and insecure_id, subscribes a new
\* response to "registration-done" and "registration-failed" before it
\* triggers the exchange, triggers exactly one exchange and returns that
\* response's future; the future stays unresolved until one of the two
\* signals fires, succeeds if "registration-done" fires first and fails
\* with InvalidCredentialsError if "registration-failed" fires first.
C6_Register ==
    [][/\ op' = "register" =>
            /\ secure_id' = None
            /\ insecure_id' = None
            /\ trace' = <<"set:secure_id", "set:insecure_id",
                          "call_on:registration-done",
                          "call_on:registration-failed", "exchange">>
            /\ ret' = [kind |-> "Deferred", value |-> Len(responses) + 1]
            /\ Len(responses') = Len(responses) + 1
            /\ responses'[ret'.value] =
                  [deferred |-> "unresolved", done_id |-> TRUE,
                   failed_id |-> TRUE, already_called |-> 0]
       /\ \A i \in DOMAIN responses :
             responses[i].deferred = "unresolved" =>
                 responses'[i].deferred = Outcome(trace')]_vars

\* register() called on a registered client, after an earlier registration
\* failed
C6_Witness ==
    /\ op = "register"
    /\ Len(responses) = 2
    /\ responses[1].deferred = "InvalidCredentialsError"
    /\ responses[2].deferred = "unresolved"
    /\ self_should_register = "False"

\* C7: a response resolves its future exactly once over any sequence of
\* "registration-done" and "registration-failed": the first signal decides
\* the outcome, both subscriptions are cancelled at that point, and every
\* later firing of either signal leaves the resolved future untouched.
C7_ResolvedOnce ==
    [][\A i \in DOMAIN responses :
          /\ responses'[i].already_called = 0
          /\ responses'[i].deferred # "unresolved" =>
                ~responses'[i].done_id /\ ~responses'[i].failed_id
          /\ responses'[i].deferred = "unresolved" =>
                responses'[i].done_id /\ responses'[i].failed_id
          /\ responses[i].deferred # "unresolved" =>
                responses'[i] = responses[i]
          /\ (responses[i].deferred = "unresolved"
                /\ Outcome(trace') # "unresolved") =>
                responses'[i].deferred = Outcome(trace')]_vars

\* "registration-failed" fired at a response that "registration-done" had
\* resolved
C7_Witness ==
    /\ op = "registration"
    /\ trace = <<"fire:registration-failed">>
    /\ Len(responses) >= 1
    /\ responses[1].deferred = "success"

\* ------------------------------------------------------------------------
\* Properties of the broker's commands
\* ------------------------------------------------------------------------
\* the words "[A-Z][a-z]+" finds in each command's name
CommandWords ==
    [Ping |-> <<"Ping">>, RegisterClient |-> <<"Register", "Client">>,
     SendMessage |-> <<"Send", "Message">>,
     IsMessagePending |-> <<"Is", "Message", "Pending">>,
     StopClients |-> <<"Stop", "Clients">>,
     ReloadConfiguration |-> <<"Reload", "Configuration">>,
     Register |-> <<"Register">>,
     GetAcceptedMessageTypes |-> <<"Get", "Accepted", "Message", "Types">>,
     GetServerUuid |-> <<"Get", "Server", "Uuid">>,
     RegisterClientAcceptedMessageType |->
        <<"Register", "Client", "Accepted", "Message", "Type">>]

\* word.lower()
Lower ==
    [Ping |-> "ping", Register |-> "register", Client |-> "client",
     Send |-> "send", Message |-> "message", Is |-> "is",
     Pending |-> "pending", Stop |-> "stop", Clients |-> "clients",
     Reload |-> "reload", Configuration |-> "configuration", Get |-> "get",
     Accepted |-> "accepted", Types |-> "types", Type |-> "type",
     Server |-> "server", Uuid |-> "uuid"]

RECURSIVE Join(_, _)
\* sep.join(words)
Join(sep, words) ==
    IF Len(words) = 0 THEN ""
    ELSE IF Len(words) = 1 THEN words[1]
    ELSE words[1] \o sep \o Join(sep, Tail(words))

\* the broker method the test derives from the command's name
MethodName(command) ==
    Join("_", [i \in DOMAIN CommandWords[command] |->
                  Lower[CommandWords[command][i]]])

\* ARGUMENT_TYPES, with the string-or-absent kind of assert_response
ArgumentTypes ==
    [String |-> {"str"}, Boolean |-> {"bool"}, Integer |-> {"int"},
     Message |-> {"dict"}, Types |-> {"list"},
     StringOrNone |-> {"str", "NoneType"}]

\* the calls of broker methods in a trace
Calls(tr) == SelectSeq(tr, LAMBDA e :
                \E c \in Commands : e = "call:" \o MethodName(c))

\* C8: every declared command, invoked once by a connected client with
\* arguments of the declared kinds, causes exactly one call of the broker
\* method of the corresponding name, and the field its response declares
\* has a value of the declared kind (a string-or-absent field may be
\* absent).
C8_Commands ==
    op \in Commands =>
        /\ Join("", CommandWords[op]) = op
        /\ Calls(trace) = <<"call:" \o MethodName(op)>>
        /\ ResponseKind[op] # None =>
              ret.kind \in ArgumentTypes[ResponseKind[op]]

\* the server UUID asked for while the store has none
C8_Witness ==
    /\ op = "GetServerUuid"
    /\ server_uuid = None
    /\ ret.kind = "NoneType"
    /\ clients # {}
    /\ messages # <<>>

\* ------------------------------------------------------------------------
\* Properties of the message store behind SendMessage
\* ------------------------------------------------------------------------
Queued(queue, id) == \E i \in DOMAIN queue : queue[i].id = id

\* what C9 says of SendMessage and IsMessagePending themselves: the id
\* SendMessage returns is pending and its message is among the pending
\* messages; IsMessagePending answers whether the id is queued, and false
\* for an id never handed out
C9_Commands ==
    /\ op' = "SendMessage" =>
          /\ Queued(messages', ret'.value)
          /\ Has(get_pending_messages(messages'), arg'.message)
          /\ ~Queued(messages, ret'.value)
    /\ op' = "IsMessagePending" =>
          /\ ret'.value = Queued(messages, arg')
          /\ arg' >= next_id => ret'.value = FALSE

\* a message a sibling queued leaves the queue in this step
Leaves(i) ==
    /\ messages[i].message.type = "test"
    /\ ~Queued(messages', messages[i].id)

\* C9 as stated: the id SendMessage returned stays pending until the
\* message is delivered
C9_AsStated ==
    [][/\ C9_Commands
       /\ \A i \in DOMAIN messages : Leaves(i) => op' = "deliver"]_vars

\* C9, amended: it stays pending until the message is delivered or a
\* pre-exchange tick that found should_register() true purges the queue
C9_PendingUntilDeliveredOrPurged ==
    [][/\ C9_Commands
       /\ \A i \in DOMAIN messages :
             Leaves(i) =>
                \/ op' = "deliver"
                \/ op' = "pre-exchange" /\ self_should_register' = "True"]_vars

\* the second of two messages reported pending after the first was
\* delivered
C9_Witness ==
    /\ op = "IsMessagePending"
    /\ arg = 2
    /\ ret.value = TRUE
    /\ Len(messages) = 1
    /\ messages[1].message.type = "test"

\* C10: messages are queued in the order their SendMessage calls are
\* accepted, for any interleaving of urgent and non-urgent calls: each call
\* queues its message behind those already queued and leaves their order
\* alone, and it triggers an exchange exactly when it is urgent.
C10_QueueOrder ==
    [][/\ \A i, j \in DOMAIN messages' :
             i < j => messages'[i].id < messages'[j].id
       /\ op' = "SendMessage" =>
             /\ Len(messages') = Len(messages) + 1
             /\ \A i \in DOMAIN messages : messages'[i] = messages[i]
             /\ messages'[Len(messages')] =
                   [id |-> ret'.value, message |-> arg'.message]
             /\ Has(trace', "exchange") = arg'.urgent]_vars

\* an urgent message queued behind two others
C10_Witness ==
    /\ op = "SendMessage"
    /\ arg.urgent
    /\ Len(messages) = 3
    /\ messages[3].message = arg.message
    /\ messages[2].message # arg.message

\* ------------------------------------------------------------------------
\* Properties of the client registry
\* ------------------------------------------------------------------------
\* C11: RegisterClient(name) on a broker with no registered client leaves
\* exactly one client record, of that name, holding the channel the command
\* came over, and the response is empty.
C11_RegisterClient ==
    [][(op' = "RegisterClient" /\ clients = {}) =>
          /\ Cardinality(clients') = 1
          /\ \A c \in clients' : /\ c.name = arg'.name
                                  /\ c.protocol = arg'.protocol
                                  /\ c.protocol \in Protocols
          /\ ret' = NoValue]_vars

C11_Witness ==
    /\ op = "RegisterClient"
    /\ clients = {[name |-> "manager", protocol |-> "conn2"]}
    /\ ret = NoValue

\* ------------------------------------------------------------------------
\* landscape-config: what the operator types
\* ------------------------------------------------------------------------
\* str.upper() on the characters an answer is made of
Upper(c) ==
    CASE c = "n" -> "N" [] c = "o" -> "O" [] c = "y" -> "Y"
      [] c = "e" -> "E" [] c = "s" -> "S" [] c = "x" -> "X"
      [] OTHER -> c

\* str.lower() on the same characters
LowerChar(c) ==
    CASE c = "N" -> "n" [] c = "O" -> "o" [] c = "Y" -> "y"
      [] c = "E" -> "e" [] c = "S" -> "s" [] c = "X" -> "x"
      [] OTHER -> c

\* a test that leaves out upper()
declines_lower_case(answer) == Len(answer) > 0 /\ answer[1] = "n"

\* not answer.upper().startswith("N") is the test of both questions; an
\* answer is the sequence of its characters
declines(answer) == Len(answer) > 0 /\ Upper(answer[1]) = "N"

\* the answers to a (Y/n) question of raw_input
Answers == { <<>>, <<"n">>, <<"N", "o">>, <<"y", "e", "s">> }

\* the final answers to prompt_yes_no, which asks again on anything else
YesNoAnswers == { <<>>, <<"N">>, <<"y">> }

\* prompt_yes_no(message, default), given the answer that ends its loop
prompt_yes_no(answer, default) ==
    IF answer = <<>> THEN default
    ELSE IF LowerChar(answer[1]) = "n" THEN FALSE
    ELSE TRUE

\* the option names the wizard asks for
Options == {"computer_title", "account_name", "registration_password",
            "http_proxy", "https_proxy", "script_users",
            "include_manager_plugins"}

\* what the operator ends up typing at each prompt of the wizard (a prompt
\* repeats until it takes the entry, so only the entry it takes is kept)
Operators ==
    { [computer_title |-> "", account_name |-> "",
       registration_password |-> "", http_proxy |-> "", https_proxy |-> "",
       script |-> <<>>, script_users |-> ""],
      [computer_title |-> "typed-title", account_name |-> "typed-acct",
       registration_password |-> "typed-pw", http_proxy |-> "typed-proxy",
       https_proxy |-> "", script |-> <<"y">>, script_users |-> "ALL"],
      [computer_title |-> "typed-title", account_name |-> "typed-acct",
       registration_password |-> "", http_proxy |-> "", https_proxy |-> "",
       script |-> <<"N">>, script_users |-> ""] }

\* ------------------------------------------------------------------------
\* landscape-config: the interactive wizard
\* ------------------------------------------------------------------------
\* prompt(option, msg, required) and password_prompt return once a value is
\* typed, or on an empty entry when there is a default or none is required
prompt_returns(cfg, option, typed, required) ==
    typed # "" \/ Truthy(cfg[option]) \/ ~required

\* the value prompt and password_prompt leave in the option
prompt(cfg, option, typed) ==
    IF typed # "" THEN [cfg EXCEPT ![option] = typed] ELSE cfg

\* included_plugins of query_script_plugin, the plugin list as the sequence
\* of the names that include_manager_plugins joins with ", "
remove(plugins, name) == SelectSeq(plugins, LAMBDA p : p # name)
contains(plugins, name) == \E i \in DOMAIN plugins : plugins[i] = name

query_computer_title(w, typed) ==
    IF "computer_title" \in w.config.options THEN w
    ELSE [trace |-> w.trace \o <<"raw_input:computer_title">>,
          config |-> prompt(w.config, "computer_title", typed.computer_title)]

query_account_name(w, typed) ==
    IF "account_name" \in w.config.options THEN w
    ELSE [trace |-> w.trace \o <<"raw_input:account_name">>,
          config |-> prompt(w.config, "account_name", typed.account_name)]

query_registration_password(w, typed) ==
    IF "registration_password" \in w.config.options THEN w
    ELSE [trace |-> w.trace \o <<"getpass:registration_password">>,
          config |-> prompt(w.config, "registration_password",
                            typed.registration_password)]

query_proxies(w, typed) ==
    IF {"http_proxy", "https_proxy"} \subseteq w.config.options THEN w
    ELSE LET h == IF "http_proxy" \in w.config.options THEN w
                  ELSE [trace |-> w.trace \o <<"raw_input:http_proxy">>,
                        config |-> prompt(w.config, "http_proxy",
                                          typed.http_proxy)]
         IN  IF "https_proxy" \in h.config.options THEN h
             ELSE [trace |-> h.trace \o <<"raw_input:https_proxy">>,
                   config |-> prompt(h.config, "https_proxy",
                                     typed.https_proxy)]

query_script_plugin(w, typed) ==
    IF {"include_manager_plugins", "script_users"} \subseteq w.config.options
    THEN w
    ELSE LET included == w.config.include_manager_plugins
             default == contains(included, "ScriptExecution")
             asked == w.trace \o <<"raw_input:script">>
         IN  IF prompt_yes_no(typed.script, default)
             THEN LET plugins == IF default THEN included
                                 ELSE Append(included, "ScriptExecution")
                      users == IF "script_users" \in w.config.options
                               THEN [trace |-> asked, config |-> w.config]
                               ELSE [trace |-> asked \o <<"raw_input:script_users">>,
                                     config |-> prompt(w.config, "script_users",
                                                       typed.script_users)]
                  IN  [trace |-> users.trace,
                       config |-> [users.config EXCEPT
                                     !.include_manager_plugins = plugins]]
             ELSE [trace |-> asked,
                   config |-> [w.config EXCEPT !.include_manager_plugins =
                                 remove(included, "ScriptExecution")]]

\* LandscapeSetupScript.run(): the header, then the five queries in order
run(cfg, typed) ==
    query_script_plugin(
      query_proxies(
        query_registration_password(
          query_account_name(
            query_computer_title([trace |-> <<>>, config |-> cfg], typed),
            typed),
          typed),
        typed),
      typed)

\* run() returns: the two required prompts get a value
run_returns(cfg, typed) ==
    /\ "computer_title" \notin cfg.options =>
          prompt_returns(cfg, "computer_title", typed.computer_title, TRUE)
    /\ "account_name" \notin cfg.options =>
          prompt_returns(cfg, "account_name", typed.account_name, TRUE)

\* ------------------------------------------------------------------------
\* landscape-config: setup(), register() and main()
\* ------------------------------------------------------------------------
\* the calls on the host's service controller (SysVConfig)
ServiceCalls == {"set_start_on_boot:True", "set_start_on_boot:False",
                 "is_configured_to_run", "stop_landscape",
                 "restart_landscape"}

\* the calls on the broker over the control bus (RemoteBroker)
BrokerCalls == <<"reload_configuration",
                 "connect_to_signal:registration_done",
                 "connect_to_signal:registration_failed",
                 "connect_to_signal:exchange_failed",
                 "register">>

\* setup_init_script_and_start_client()
setup_init_script_and_start_client == <<"set_start_on_boot:True">>

\* the two calls in the other order
disable_init_script_and_stop_client(stop_fails) ==
    IF stop_fails THEN <<"set_start_on_boot:False", "stop_landscape">>
    ELSE <<"set_start_on_boot:False", "stop_landscape">>

\* stop_client_and_disable_init_script(); a stop_landscape() that raises
\* ProcessError ends it
stop_client_and_disable_init_script(stop_fails) ==
    IF stop_fails THEN <<"stop_landscape">>
    ELSE <<"stop_landscape", "set_start_on_boot:False">>

\* the first block of setup(): the service is set to start on boot, unless
\* no_start, and in interactive mode after asking
start_on_boot(cfg, in) ==
    IF cfg.no_start THEN [trace |-> <<>>, outcome |-> "return"]
    ELSE IF cfg.silent
    THEN [trace |-> setup_init_script_and_start_client, outcome |-> "return"]
    ELSE IF in.configured
    THEN [trace |-> <<"is_configured_to_run">>, outcome |-> "return"]
    ELSE IF ~declines(in.boot_answer)
    THEN [trace |-> <<"is_configured_to_run",
                      "raw_input:start-on-boot:" \o Join("", in.boot_answer)>>
                    \o setup_init_script_and_start_client,
          outcome |-> "return"]
    ELSE [trace |-> <<"is_configured_to_run",
                      "raw_input:start-on-boot:" \o Join("", in.boot_answer)>>,
          outcome |-> "exit"]

\* the proxies of the environment, taken when the configuration has none
with_proxies(cfg, environ) ==
    [cfg EXCEPT
       !.http_proxy = IF cfg.http_proxy = None /\ Truthy(environ.http_proxy)
                      THEN environ.http_proxy ELSE @,
       !.https_proxy = IF cfg.https_proxy = None /\ Truthy(environ.https_proxy)
                       THEN environ.https_proxy ELSE @]

\* the exit code of a restart or bus failure
failure_exit_code_always_2(cfg) == "2"

failure_exit_code(cfg) == IF cfg.ok_no_register THEN "0" ELSE "2"

\* the end of setup(): config.write(), then the restart unless no_start
write_and_restart_despite_no_start(cfg, in) ==
    IF ~in.restart_fails
    THEN [trace |-> <<"write", "restart_landscape">>, outcome |-> "return",
          code |-> "none"]
    ELSE [trace |-> <<"write", "restart_landscape",
                      "error:Couldn't restart the Landscape client.",
                      "error:This machine will be registered with the provided details when the client runs.">>,
          outcome |-> "exit", code |-> failure_exit_code(cfg)]

write_and_restart(cfg, in) ==
    IF cfg.no_start THEN [trace |-> <<"write">>, outcome |-> "return", code |-> "none"]
    ELSE IF ~in.restart_fails
    THEN [trace |-> <<"write", "restart_landscape">>, outcome |-> "return",
          code |-> "none"]
    ELSE [trace |-> <<"write", "restart_landscape",
                      "error:Couldn't restart the Landscape client.",
                      "error:This machine will be registered with the provided details when the client runs.">>,
          outcome |-> "exit", code |-> failure_exit_code(cfg)]

\* the silent run that setup() refuses with a ConfigurationError
configuration_error_never(cfg) == FALSE

configuration_error(cfg) ==
    cfg.silent /\ (~Truthy(cfg.account_name) \/ ~Truthy(cfg.computer_title))

\* setup(config): what it called, how it ended ("return", "raise" for an
\* Exception, "exit" for sys.exit) and the configuration it leaves
setup(cfg, in) ==
    LET boot == start_on_boot(cfg, in)
        proxied == with_proxies(cfg, in.environ)
    IN  IF boot.outcome = "exit"
        THEN \* sys.exit("Aborting Landscape configuration")
             [trace |-> boot.trace, outcome |-> "exit", code |-> "1",
              config |-> cfg]
        ELSE IF configuration_error(proxied)
        THEN [trace |-> boot.trace, outcome |-> "raise", code |-> "none",
              config |-> proxied]
        ELSE LET filled ==
                   IF cfg.silent
                   THEN [trace |-> <<>>,
                         config |->
                           IF Truthy(proxied.script_users)
                              /\ proxied.include_manager_plugins = <<>>
                           THEN [proxied EXCEPT !.include_manager_plugins =
                                   <<"ScriptExecution">>]
                           ELSE proxied]
                   ELSE run(proxied, in.typed)
                 end == write_and_restart(filled.config, in)
             IN  [trace |-> boot.trace \o filled.trace \o end.trace,
                  outcome |-> end.outcome, code |-> end.code,
                  config |-> filled.config]

\* register(config) up to reactor.run(): the progress message, the pause,
\* the bus connection and, over it, the five calls on the broker
cli_register(cfg, in) ==
    LET opening == <<"print:Please wait... ", "sleep:2", "get_bus">>
    IN  IF in.bus_fails
        THEN [trace |-> opening \o
                <<"error:There was an error communicating with the Landscape client via DBus.",
                  "error:This machine will be registered with the provided details when the client runs.">>,
              pc |-> "exited", code |-> failure_exit_code(cfg)]
        ELSE [trace |-> opening \o BrokerCalls \o <<"reactor.run">>,
              pc |-> "running", code |-> "none"]

\* main(args) up to its end or to reactor.run()
main(cfg, in) ==
    IF in.uid # 0
    THEN [trace |-> <<"exit:landscape-config must be run as root.">>,
          pc |-> "exited", code |-> "1", config |-> cfg]
    ELSE IF cfg.disable
    THEN [trace |-> <<"load">> \o stop_client_and_disable_init_script(in.stop_fails),
          pc |-> IF in.stop_fails THEN "raised" ELSE "returned",
          code |-> IF in.stop_fails THEN "1" ELSE "0", config |-> cfg]
    ELSE LET s == setup(cfg, in)
             asked == IF cfg.silent THEN <<>>
                      ELSE <<"raw_input:register:" \o Join("", in.register_answer)>>
             r == cli_register(s.config, in)
         IN  CASE s.outcome = "raise" ->
                    [trace |-> <<"load">> \o s.trace \o
                       <<"print:An account name and computer title are required.",
                         "exit:Aborting Landscape configuration">>,
                     pc |-> "exited", code |-> "1", config |-> s.config]
               [] s.outcome = "exit" ->
                    [trace |-> <<"load">> \o s.trace \o
                       (IF s.code = "1"
                        THEN <<"exit:Aborting Landscape configuration">>
                        ELSE <<>>),
                     pc |-> "exited", code |-> s.code, config |-> s.config]
               [] s.outcome = "return" ->
                    IF cfg.silent \/ ~declines(in.register_answer)
                    THEN [trace |-> <<"load">> \o s.trace \o asked \o r.trace,
                          pc |-> r.pc, code |-> r.code, config |-> s.config]
                    ELSE [trace |-> <<"load">> \o s.trace \o asked,
                          pc |-> "returned", code |-> "0", config |-> s.config]

\* what main() meets: the user it runs as, the host's service controller,
\* the bus, the environment and the operator
Inputs ==
    [uid : {0, 1000}, configured : BOOLEAN, boot_answer : Answers,
     stop_fails : BOOLEAN, restart_fails : BOOLEAN, bus_fails : BOOLEAN,
     register_answer : Answers, typed : Operators,
     environ : { [http_proxy |-> None, https_proxy |-> None],
                 [http_proxy |-> "env-proxy", https_proxy |-> ""] }]

Main(in) ==
    /\ cli_pc = "start"
    /\ cli_config.silent \/ run_returns(cli_config, in.typed)
    /\ LET m == main(cli_config, in)
       IN  /\ cli_pc' = m.pc
           /\ cli_config' = m.config
           /\ cli_trace' = m.trace
           /\ cli_exit' = m.code
           /\ deferreds' = IF m.pc = "running"
                           THEN [i \in DOMAIN BrokerCalls |-> "pending"]
                           ELSE <<>>
    /\ caught' = <<>>

\* ------------------------------------------------------------------------
\* landscape-config: the reactor of register()
\* ------------------------------------------------------------------------
\* the failures a call on the broker can end with
Failures == {"ServiceUnknownError", "SecurityError", "NoReplyError",
             "InvalidCredentialsError", "ValueError"}

Register5 == 5  \* the place of remote.register() among the deferreds

\* a handle_registration_errors that takes no failure
trapped_nothing(failure) == FALSE

\* failure.trap(InvalidCredentialsError, NoReplyError) of
\* handle_registration_errors: the failures it takes
trapped(failure) == failure \in {"InvalidCredentialsError", "NoReplyError"}

\* a catch_all without the test of the failure
catch_all_unknown(failure) ==
    <<"error:traceback:" \o failure, "error:Unknown error occurred.",
      "callLater:reactor.stop">>

\* catch_all(failure)
catch_all(failure) ==
    IF failure \in {"ServiceUnknownError", "SecurityError"}
    THEN <<"error:Error occurred contacting Landscape Client. Is it running?",
           "callLater:reactor.stop">>
    ELSE <<"error:traceback:" \o failure, "error:Unknown error occurred.",
           "callLater:reactor.stop">>

\* gather_results(deferreds, consume_errors=True): its errback fires for
\* the first deferred that fails, later failures are consumed
gather_results_fires(ds) == \A j \in DOMAIN ds : ds[j] # "failed"

Running == cli_pc \in {"running", "stopping"}

\* a call on the broker succeeds
Callback(i) ==
    /\ Running
    /\ deferreds[i] = "pending"
    /\ deferreds' = [deferreds EXCEPT ![i] = "ok"]
    /\ UNCHANGED <<cli_pc, cli_config, cli_trace, cli_exit, caught>>

\* a call on the broker fails
Errback(i, failure) ==
    /\ Running
    /\ deferreds[i] = "pending"
    /\ IF i = Register5 /\ trapped(failure)
       THEN \* handle_registration_errors takes it
            /\ deferreds' = [deferreds EXCEPT ![i] = "ok"]
            /\ cli_trace' = cli_trace \o
                  <<"errback:" \o BrokerCalls[i] \o ":" \o failure,
                    "fireSystemEvent:landscape-registration-error">>
            /\ UNCHANGED <<cli_pc, caught>>
       ELSE /\ deferreds' = [deferreds EXCEPT ![i] = "failed"]
            /\ IF gather_results_fires(deferreds)
               THEN /\ cli_trace' = cli_trace \o
                          <<"errback:" \o BrokerCalls[i] \o ":" \o failure>>
                          \o catch_all(failure)
                    /\ caught' = Append(caught, BrokerCalls[i])
                    /\ cli_pc' = "stopping"
               ELSE \* consume_errors: the failure goes nowhere
                    /\ cli_trace' = cli_trace \o
                          <<"consumed:" \o BrokerCalls[i]>>
                    /\ UNCHANGED <<cli_pc, caught>>
    /\ UNCHANGED <<cli_config, cli_exit>>

\* the handlers of the three signals and what each prints
Signals ==
    [registration_done |-> "print:System successfully registered.",
     registration_failed |-> "error:Invalid account name or registration password.",
     exchange_failed |-> "error:We were unable to contact the server."]

SignalNames == <<"registration_done", "registration_failed", "exchange_failed">>

\* the broker emits a signal register() is connected to: the handler prints
\* and stops the reactor, reactor.run() returns and main() with it
Signal(k) ==
    /\ Running
    /\ deferreds[k + 1] = "ok"
    /\ cli_trace' = cli_trace \o <<"signal:" \o SignalNames[k],
                                   Signals[SignalNames[k]], "reactor.stop">>
    /\ cli_pc' = "returned"
    /\ cli_exit' = "0"
    /\ UNCHANGED <<cli_config, deferreds, caught>>

\* the reactor.stop() catch_all scheduled runs
Stop ==
    /\ cli_pc = "stopping"
    /\ cli_trace' = cli_trace \o <<"reactor.stop">>
    /\ cli_pc' = "returned"
    /\ cli_exit' = "0"
    /\ UNCHANGED <<cli_config, deferreds, caught>>

\* ------------------------------------------------------------------------
\* landscape-config: the runs of main()
\* ------------------------------------------------------------------------
\* the account and title a configuration comes with
CliIdentities ==
    { [account_name |-> None, computer_title |-> None],
      [account_name |-> "acct", computer_title |-> None],
      [account_name |-> "", computer_title |-> "web"],
      [account_name |-> "acct", computer_title |-> "web"] }

\* the other options it comes with, and those given on the command line
CliExtras ==
    { [http_proxy |-> None, script_users |-> None,
       include_manager_plugins |-> <<>>, options |-> {}],
      [http_proxy |-> None, script_users |-> "ALL",
       include_manager_plugins |-> <<>>, options |-> {"script_users"}],
      [http_proxy |-> None, script_users |-> "ALL",
       include_manager_plugins |-> <<"ProcessKiller">>,
       options |-> {"script_users", "include_manager_plugins"}],
      [http_proxy |-> "cfg-proxy", script_users |-> None,
       include_manager_plugins |-> <<"ScriptExecution">>,
       options |-> Options] }

\* a LandscapeSetupConfiguration after load(args)
CliConfig(disable, silent, no_start, ok_no_register, identity, extras) ==
    [disable |-> disable, silent |-> silent, no_start |-> no_start,
     ok_no_register |-> ok_no_register,
     account_name |-> identity.account_name,
     computer_title |-> identity.computer_title,
     registration_password |-> None,
     http_proxy |-> extras.http_proxy, https_proxy |-> None,
     script_users |-> extras.script_users,
     include_manager_plugins |-> extras.include_manager_plugins,
     options |-> extras.options
                 \ ((IF identity.account_name = None
                     THEN {"account_name"} ELSE {})
                    \cup (IF identity.computer_title = None
                          THEN {"computer_title"} ELSE {})
                    \cup {"registration_password", "https_proxy"}
                    \cup (IF extras.script_users = None
                          THEN {"script_users"} ELSE {}))]

CliConfigs ==
    { CliConfig(d, s, n, k, identity, extras) :
        d \in BOOLEAN, s \in BOOLEAN, n \in BOOLEAN, k \in BOOLEAN,
        identity \in CliIdentities, extras \in CliExtras }

\* landscape-config is started with a configuration
CliStart(cfg) ==
    /\ cli_pc = "start"
    /\ cli_config = cfg
    /\ cli_trace = <<>>
    /\ cli_exit = "none"
    /\ deferreds = <<>>
    /\ caught = <<>>

\* a broker the CLI does not reach
BrokerIdle == Broker(Config("web", "acct", None, PlainExtras), {}, None)

InitCli ==
    BrokerIdle /\ FsIdle /\ MonitorIdle /\ LibIdle
    /\ \E cfg \in CliConfigs : CliStart(cfg)

NextCli == \E in \in Inputs : Main(in) /\ UNCHANGED notcli

SpecCli == InitCli /\ [][NextCli]_vars

\* the runs of register() in silent mode
InitRegister ==
    /\ BrokerIdle
    /\ FsIdle
    /\ MonitorIdle
    /\ LibIdle
    /\ CliStart(CliConfig(FALSE, TRUE, FALSE, FALSE,
                          [account_name |-> "acct", computer_title |-> "web"],
                          [http_proxy |-> "cfg-proxy", script_users |-> None,
                           include_manager_plugins |-> <<>>,
                           options |-> {"http_proxy"}]))

NextRegister ==
    \/ \E in \in Inputs : Main(in) /\ UNCHANGED notcli
    \/ \E i \in DOMAIN BrokerCalls : Callback(i) /\ UNCHANGED notcli
    \/ \E i \in DOMAIN BrokerCalls, failure \in Failures :
          Errback(i, failure) /\ UNCHANGED notcli
    \/ \E k \in DOMAIN SignalNames : Signal(k) /\ UNCHANGED notcli
    \/ Stop /\ UNCHANGED notcli

SpecRegister == InitRegister /\ [][NextRegister]_vars

\* the same runs under the reactor's scheduling: every call on the broker
\* is answered or times out, and a reactor.stop() scheduled with
\* callLater(0, ...) runs; that the broker emits a signal is not assumed
SpecRegisterFair ==
    /\ InitRegister
    /\ [][NextRegister]_vars
    /\ \A i \in DOMAIN BrokerCalls :
          WF_vars((Callback(i) \/ \E failure \in Failures : Errback(i, failure))
                  /\ UNCHANGED notcli)
    /\ WF_vars(Stop /\ UNCHANGED notcli)

\* ------------------------------------------------------------------------
\* Properties of landscape-config
\* ------------------------------------------------------------------------
\* main() has run, as root, past config.load()
Loaded == cli_pc # "start" /\ cli_trace # <<>> /\ cli_trace[1] = "load"

ConfigurationErrorText ==
    "print:An account name and computer title are required."
RestartErrorText == "error:Couldn't restart the Landscape client."
BusErrorText ==
    "error:There was an error communicating with the Landscape client via DBus."

\* the runs of setup() in silent mode that lack a required option
C12_Case ==
    /\ Loaded
    /\ ~cli_config.disable
    /\ cli_config.silent
    /\ ~Truthy(cli_config.account_name) \/ ~Truthy(cli_config.computer_title)

\* C12: setup in silent mode without an account name, or without a
\* computer title, raises the configuration error before any call on the
\* service controller, the start-on-boot setting included, or on the bus.
C12_AsStated ==
    C12_Case =>
        /\ Has(cli_trace, ConfigurationErrorText)
        /\ \A i \in DOMAIN cli_trace :
              /\ cli_trace[i] \notin ServiceCalls
              /\ cli_trace[i] # "get_bus"
              /\ \A j \in DOMAIN BrokerCalls : cli_trace[i] # BrokerCalls[j]

\* main() ran as root with --disable
C13_Case == Loaded /\ cli_config.disable

C14_FailureExit ==
    /\ (Loaded /\ Has(cli_trace, RestartErrorText)) =>
          /\ cli_pc = "exited"
          /\ cli_exit = IF cli_config.ok_no_register THEN "0" ELSE "2"
          /\ ~Has(cli_trace, "get_bus")
    /\ (Loaded /\ Has(cli_trace, BusErrorText)) =>
          /\ cli_pc = "exited"
          /\ cli_exit = IF cli_config.ok_no_register THEN "0" ELSE "2"
          /\ \A j \in DOMAIN BrokerCalls : ~Has(cli_trace, BrokerCalls[j])

C14_Witness ==
    /\ Loaded
    /\ Has(cli_trace, BusErrorText)
    /\ cli_config.ok_no_register
    /\ cli_exit = "0"

\* the calls of register() in the run
RegisterCalls == Count(cli_trace, "print:Please wait... ")

\* setup() returned: it wrote the configuration and no restart failed
SetupReturned ==
    Has(cli_trace, "write") /\ ~Has(cli_trace, RestartErrorText)

\* C15: main calls register only as root, without --disable and after
\* setup returned; then once in silent mode, and in interactive mode once
\* when the answer is empty or does not start with n or N, else not at
\* all.  When setup raises, main ends with a non-zero exit and no call.
C15_RegisterCalls ==
    cli_pc # "start" =>
        /\ RegisterCalls <= 1
        /\ RegisterCalls = 1 =>
              Loaded /\ ~cli_config.disable /\ SetupReturned
        /\ (Loaded /\ ~cli_config.disable /\ SetupReturned
             /\ cli_config.silent) => RegisterCalls = 1
        /\ (Loaded /\ ~cli_config.disable /\ SetupReturned
             /\ ~cli_config.silent) =>
              \E a \in Answers :
                  /\ Has(cli_trace, "raw_input:register:" \o Join("", a))
                  /\ (RegisterCalls = 1) <=>
                        (a = <<>> \/ a[1] \notin {"n", "N"})
        /\ Has(cli_trace, ConfigurationErrorText) =>
              /\ RegisterCalls = 0
              /\ cli_pc = "exited"
              /\ cli_exit \notin {"0", "none"}

C15_Witness ==
    /\ Loaded
    /\ ~cli_config.silent
    /\ Has(cli_trace, "raw_input:register:No")
    /\ RegisterCalls = 0
    /\ cli_exit = "0"

\* what a step adds to the run
New == SubSeq(cli_trace', Len(cli_trace) + 1, Len(cli_trace'))

FailureEntry(i, failure) == "errback:" \o BrokerCalls[i] \o ":" \o failure

\* the diagnostic of a failure
Diagnostic(failure) ==
    IF failure \in {"ServiceUnknownError", "SecurityError"}
    THEN <<"error:Error occurred contacting Landscape Client. Is it running?">>
    ELSE <<"error:traceback:" \o failure, "error:Unknown error occurred.">>

\* what a step prints to the error stream
Printed(seq) ==
    SelectSeq(seq, LAMBDA e :
        \E failure \in Failures : \E k \in DOMAIN Diagnostic(failure) :
            e = Diagnostic(failure)[k])

\* the step is the failure of the i-th call on the broker
Fails(i) ==
    /\ cli_pc \in {"running", "stopping"}
    /\ deferreds[i] = "pending"
    /\ New # <<>>
    /\ \/ New[1] = "consumed:" \o BrokerCalls[i]
       \/ \E failure \in Failures : New[1] = FailureEntry(i, failure)

\* C16 as stated: of the failures of the five calls, in any subset and
\* order, the first one runs the catch-all handler, which prints the
\* diagnostic of its kind, and every later one prints nothing.
C16_AsStated ==
    [][\A i \in DOMAIN BrokerCalls :
          Fails(i) =>
              IF \A j \in DOMAIN BrokerCalls, failure \in Failures :
                    ~Has(cli_trace, FailureEntry(j, failure))
              THEN /\ caught' = <<BrokerCalls[i]>>
                   /\ \E failure \in Failures :
                         /\ New[1] = FailureEntry(i, failure)
                         /\ Printed(New) = Diagnostic(failure)
              ELSE /\ caught' = caught
                   /\ Printed(New) = <<>>]_vars

\* C16, amended: a failure of the register call with an invalid-credentials
\* or no-reply error is taken by the registration error filter, runs no
\* catch-all and prints nothing; of the other failures, in any subset and
\* order, the first one runs the catch-all handler, which prints the
\* diagnostic of its kind, and every later one prints nothing.
C16_FirstFailureOnly ==
    [][\A i \in DOMAIN BrokerCalls :
          Fails(i) =>
              /\ Len(caught') <= 1
              /\ IF deferreds'[i] # "failed"
                 THEN /\ i = Register5
                      /\ \E failure \in {"InvalidCredentialsError", "NoReplyError"} :
                            New[1] = FailureEntry(i, failure)
                      /\ caught' = caught
                      /\ Printed(New) = <<>>
                 ELSE IF \A j \in DOMAIN BrokerCalls : deferreds[j] # "failed"
                 THEN /\ caught' = <<BrokerCalls[i]>>
                      /\ \E failure \in Failures :
                            /\ New[1] = FailureEntry(i, failure)
                            /\ i = Register5 =>
                                  failure \notin {"InvalidCredentialsError",
                                                  "NoReplyError"}
                            /\ Printed(New) = Diagnostic(failure)
                 ELSE /\ caught' = caught
                      /\ Printed(New) = <<>>]_vars

C16_Witness ==
    /\ caught = <<"connect_to_signal:registration_failed">>
    /\ Has(cli_trace, FailureEntry(3, "SecurityError"))
    /\ Has(cli_trace, "consumed:reload_configuration")
    /\ Has(cli_trace, "consumed:register")
    /\ Count(cli_trace, "error:Error occurred contacting Landscape Client. Is it running?") = 1

\* ------------------------------------------------------------------------
\* File-system utilities (landscape/lib/fs.py)
\* ------------------------------------------------------------------------
\* the characters of the texts: two of one byte and U+00E9, of two bytes
Chars == {"a", "b", "U+00E9"}

\* the UTF-8 encoding of a character
EncodeChar(c) ==
    CASE c = "a" -> <<97>> [] c = "b" -> <<98>> [] c = "U+00E9" -> <<195, 169>>

RECURSIVE encode(_)
\* text.encode("utf-8"), a text being the sequence of its characters
encode(text) ==
    IF text = <<>> THEN <<>>
    ELSE EncodeChar(Head(text)) \o encode(Tail(text))

RECURSIVE valid(_)
\* bytes.decode("utf-8") does not raise
valid(bytes) ==
    IF bytes = <<>> THEN TRUE
    ELSE IF bytes[1] < 128 THEN valid(Tail(bytes))
    ELSE /\ bytes[1] = 195
         /\ Len(bytes) >= 2
         /\ bytes[2] = 169
         /\ valid(Tail(Tail(bytes)))

RECURSIVE decode(_)
\* bytes.decode("utf-8") of valid bytes
decode(bytes) ==
    IF bytes = <<>> THEN <<>>
    ELSE IF bytes[1] = 97 THEN <<"a">> \o decode(Tail(bytes))
    ELSE IF bytes[1] = 98 THEN <<"b">> \o decode(Tail(bytes))
    ELSE <<"U+00E9">> \o decode(Tail(Tail(bytes)))

\* the texts written in one call
Texts ==
    {<<>>} \cup { <<c>> : c \in Chars }
           \cup { <<"a", "b">>, <<"b", "U+00E9">>, <<"U+00E9", "a">> }

\* a path that can be written and one in a directory that does not exist
Paths == {"/f", "/missing/f"}
writable(path) == path = "/f"

abs(n) == IF n < 0 THEN -n ELSE n

\* a seek that always counts from the start of the file
seek_from_start(size, limited, limit) ==
    IF limited /\ limit # 0 /\ size > abs(limit)
    THEN abs(limit)
    ELSE 0

\* the position fd.seek(limit, whence) of read_file leaves, 0 without seek
seek(size, limited, limit) ==
    IF limited /\ limit # 0 /\ size > abs(limit)
    THEN IF limit < 0 THEN size + limit ELSE limit
    ELSE 0

\* read_file(path, limit): fd.read() from that position to the end, decoded
read_file(files, path, limited, limit) ==
    IF path \notin DOMAIN files
    THEN [raised |-> "IOError", text |-> <<>>]
    ELSE LET bytes == files[path].content
             content == SubSeq(bytes, seek(Len(bytes), limited, limit) + 1,
                               Len(bytes))
         IN  IF valid(content)
             THEN [raised |-> "none", text |-> decode(content)]
             ELSE [raised |-> "UnicodeDecodeError", text |-> <<>>]

\* open(path, "a"): the file is created if missing and kept if not
opened_for_append(files, path, now) ==
    IF path \in DOMAIN files THEN files[path]
    ELSE [content |-> <<>>, atime |-> now, mtime |-> now]

\* an open that keeps what the file holds
opened_for_write_keeping(files, path, now) ==
    IF path \in DOMAIN files THEN files[path]
    ELSE [content |-> <<>>, atime |-> now, mtime |-> now]

\* open(path, "w"): the file is created or truncated
opened_for_write(files, path, now) ==
    IF path \in DOMAIN files
    THEN [files[path] EXCEPT !.content = <<>>, !.mtime = now]
    ELSE [content |-> <<>>, atime |-> now, mtime |-> now]


\* the file after fd.write(content)
written(file, content, now) ==
    [file EXCEPT !.content = @ \o encode(content), !.mtime = now]

CreateFile(path, content) ==
    /\ fs_op' = Call("create_file", path, content, FALSE, 0)
    /\ fs_ret' = <<>>
    /\ IF writable(path)
       THEN /\ fs_files' = (path :> written(opened_for_write(fs_files, path, fs_now),
                                            content, fs_now)) @@ fs_files
            /\ fs_raised' = "none"
       ELSE /\ fs_raised' = "IOError"
            /\ UNCHANGED fs_files
    /\ UNCHANGED fs_now

AppendFile(path, content) ==
    /\ path \in DOMAIN fs_files =>
          Len(fs_files[path].content) + Len(encode(content)) <= MaxFileSize
    /\ fs_op' = Call("append_file", path, content, FALSE, 0)
    /\ fs_ret' = <<>>
    /\ IF writable(path)
       THEN /\ fs_files' = (path :> written(opened_for_append(fs_files, path, fs_now),
                                            content, fs_now)) @@ fs_files
            /\ fs_raised' = "none"
       ELSE /\ fs_raised' = "IOError"
            /\ UNCHANGED fs_files
    /\ UNCHANGED fs_now

ReadFile(path, limited, limit) ==
    /\ fs_op' = Call("read_file", path, <<>>, limited, limit)
    /\ fs_ret' = read_file(fs_files, path, limited, limit).text
    /\ fs_raised' = read_file(fs_files, path, limited, limit).raised
    /\ UNCHANGED <<fs_files, fs_now>>

\* touch_file(path, offset_seconds); offset tells whether one is given
TouchFile(path, offset, offset_seconds) ==
    /\ fs_op' = Call("touch_file", path, <<>>, offset, offset_seconds)
    /\ fs_ret' = <<>>
    /\ IF writable(path)
       THEN LET touch_time == IF offset THEN fs_now + offset_seconds
                              ELSE fs_now
            IN  fs_files' =
                  (path :> [opened_for_append(fs_files, path, fs_now) EXCEPT
                              !.atime = touch_time, !.mtime = touch_time])
                  @@ fs_files
            /\ fs_raised' = "none"
       ELSE /\ fs_raised' = "IOError"
            /\ UNCHANGED fs_files
    /\ UNCHANGED fs_now

\* time passes
Tick ==
    /\ fs_now < MaxClock
    /\ fs_now' = fs_now + 1
    /\ UNCHANGED <<fs_files, fs_op, fs_ret, fs_raised>>

Limits == (0 - MaxFileSize - 1) .. (MaxFileSize + 1)
Offsets == {-1, 0, 1}

InitFs == BrokerIdle /\ CliIdle /\ FsIdle /\ MonitorIdle /\ LibIdle

NextFs ==
    \/ \E path \in Paths, content \in Texts :
          CreateFile(path, content) /\ UNCHANGED notfs
    \/ \E path \in Paths, content \in Texts :
          AppendFile(path, content) /\ UNCHANGED notfs
    \/ \E path \in Paths :
          ReadFile(path, FALSE, 0) /\ UNCHANGED notfs
    \/ \E path \in Paths, limit \in Limits :
          ReadFile(path, TRUE, limit) /\ UNCHANGED notfs
    \/ \E path \in Paths :
          TouchFile(path, FALSE, 0) /\ UNCHANGED notfs
    \/ \E path \in Paths, offset_seconds \in Offsets :
          TouchFile(path, TRUE, offset_seconds) /\ UNCHANGED notfs
    \/ Tick /\ UNCHANGED notfs

SpecFs == InitFs /\ [][NextFs]_vars

\* ------------------------------------------------------------------------
\* Properties of the file-system utilities
\* ------------------------------------------------------------------------
\* the bytes of the file the last call was about
Bytes == fs_files[fs_op.path].content

\* the last call was read_file with a limit, of a file that is there
ReadWithLimit ==
    /\ fs_op.name = "read_file"
    /\ fs_op.limited
    /\ fs_op.path \in DOMAIN fs_files

\* C17: read_file with a positive limit n on a file longer than n bytes
\* returns the first n bytes of the file, decoded as text.
C17_AsStated ==
    (/\ ReadWithLimit
     /\ fs_op.limit > 0
     /\ Len(Bytes) > fs_op.limit
     /\ valid(SubSeq(Bytes, 1, fs_op.limit))) =>
        /\ fs_raised = "none"
        /\ fs_ret = decode(SubSeq(Bytes, 1, fs_op.limit))

\* the last n bytes of the file of the last call
Last(n) == SubSeq(Bytes, Len(Bytes) - n + 1, Len(Bytes))

\* C18 as stated: read_file with a negative limit -n on a file longer than
\* n bytes returns the last n bytes of the file; with a limit, positive or
\* negative, of a magnitude of at least the file size it returns the whole
\* file.
C18_AsStated ==
    /\ (ReadWithLimit /\ fs_op.limit < 0 /\ Len(Bytes) > abs(fs_op.limit)) =>
          /\ fs_raised = "none"
          /\ encode(fs_ret) = Last(abs(fs_op.limit))
    /\ (ReadWithLimit /\ fs_op.limit # 0 /\ abs(fs_op.limit) >= Len(Bytes)) =>
          /\ fs_raised = "none"
          /\ encode(fs_ret) = Bytes

\* C18, amended: with a negative limit -n on a file longer than n bytes
\* read_file returns the last n bytes decoded as text when they are valid
\* UTF-8 and raises a decoding error when they are not; with a limit of a
\* magnitude of at least the file size it returns the whole file.
C18_LastBytes ==
    /\ (ReadWithLimit /\ fs_op.limit < 0 /\ Len(Bytes) > abs(fs_op.limit)) =>
          IF valid(Last(abs(fs_op.limit)))
          THEN /\ fs_raised = "none"
               /\ encode(fs_ret) = Last(abs(fs_op.limit))
          ELSE /\ fs_raised = "UnicodeDecodeError"
               /\ fs_ret = <<>>
    /\ (ReadWithLimit /\ fs_op.limit # 0 /\ abs(fs_op.limit) >= Len(Bytes)) =>
          /\ fs_raised = "none"
          /\ encode(fs_ret) = Bytes

C18_Witness ==
    /\ ReadWithLimit
    /\ fs_op.limit = -2
    /\ Bytes = <<97, 195, 169>>
    /\ fs_ret = <<"U+00E9">>

\* C19: after create_file(path, content), whatever the file held before,
\* read_file(path) without limit returns that content, and a touch_file of
\* a file leaves what read_file returns of it unchanged.
C19_RoundTrip ==
    [][/\ (fs_op'.name = "create_file" /\ fs_raised' = "none") =>
             read_file(fs_files', fs_op'.path, FALSE, 0)
                = [raised |-> "none", text |-> fs_op'.content]
       /\ (fs_op'.name = "touch_file" /\ fs_op'.path \in DOMAIN fs_files) =>
             read_file(fs_files', fs_op'.path, FALSE, 0)
                = read_file(fs_files, fs_op'.path, FALSE, 0)]_vars

C19_Witness ==
    /\ fs_op.name = "touch_file"
    /\ fs_op.path \in DOMAIN fs_files
    /\ fs_files[fs_op.path].mtime = fs_now - 1
    /\ read_file(fs_files, fs_op.path, FALSE, 0).text = <<"b", "U+00E9">>

\* ------------------------------------------------------------------------
\* The storage-usage plugin of the monitor (landscape/monitor/cephusage.py)
\* ------------------------------------------------------------------------
Interval == 300  \* the plugin's interval and monitor_interval, in seconds

\* the raw statistics of the cluster, in kilobytes
StatsSamples ==
    { [kb |-> 10240, kb_avail |-> 8192, kb_used |-> 2048],
      [kb |-> 10240, kb_avail |-> 6144, kb_used |-> 4096] }

\* kilobytes to gigabytes, as the plugin converts them
to_gb(kb) == kb \div 1024

\* the accumulator over one key: the value weighted by time within a step
\* of the interval, and the step's average once a step boundary is passed
accumulate(previous_timestamp, accumulated_value, new_timestamp, new_value) ==
    LET previous_step == previous_timestamp \div Interval
        new_step == new_timestamp \div Interval
        step_boundary == new_step * Interval
    IN  IF new_step = previous_step
        THEN [value |-> accumulated_value
                        + (new_timestamp - previous_timestamp) * new_value,
              step_data |-> <<>>]
        ELSE IF new_step = previous_step + 1
        THEN [value |-> (new_timestamp - step_boundary) * new_value,
              step_data |->
                <<step_boundary,
                  (accumulated_value
                   + (step_boundary - previous_timestamp) * new_value)
                  \div Interval>>]
        ELSE [value |-> (new_timestamp - step_boundary) * new_value,
              step_data |-> <<>>]

\* the accumulator's call for a key, from what it persisted
accumulated(persist, key, timestamp, value) ==
    IF key \in DOMAIN persist
    THEN accumulate(persist[key][1], persist[key][2], timestamp, value)
    ELSE accumulate(timestamp, 0, timestamp, value)

\* the gigabytes _handle_usage feeds the accumulator, by key
usage(stats) ==
    [total |-> to_gb(stats.kb), avail |-> to_gb(stats.kb_avail),
     used |-> to_gb(stats.kb_used)]

\* _handle_usage(stats) at a time: what the accumulator keeps afterwards
handled_persist(persist, stats, timestamp) ==
    [key \in {"total", "avail", "used"} |->
        <<timestamp,
          accumulated(persist, key, timestamp, usage(stats)[key]).value>>]

\* a _handle_usage that appends a point on every call
handled_points_every_call(points, persist, stats, timestamp) ==
    Append(points, <<timestamp, usage(stats).total, usage(stats).avail,
                     usage(stats).used>>)

\* _handle_usage(stats) at a time: the usage points afterwards, one more
\* when the accumulator passed a step boundary
handled_points(points, persist, stats, timestamp) ==
    LET step == [key \in {"total", "avail", "used"} |->
                   accumulated(persist, key, timestamp,
                               usage(stats)[key]).step_data]
    IN  IF \E key \in DOMAIN step : step[key] = <<>>
        THEN points
        ELSE Append(points, <<step.total[1], step.total[2], step.avail[2],
                              step.used[2]>>)

\* create_message()
create_message(ring_id, points) ==
    [type |-> "ceph", ring_id |-> ring_id, usages |-> points]

\* an exchange that queues the message whenever its type is accepted
queues_message_when_accepted(points, types) == "ceph" \in types

\* the exchange queues the message: there are points and the server
\* accepts the type
queues_message(points, types) == points # <<>> /\ "ceph" \in types

\* the monitor's exchange cycle, with the plugin registered; whether the
\* plugin keeps the points it handed to a queued message is left open by
\* the plugin's documentation and tests, so both outcomes are taken
Exchange ==
    /\ queues_message(ceph_usage_points, mon_accepted_types) =>
          Len(mon_messages) < MaxQueued
    /\ mon_op' = "exchange"
    /\ IF queues_message(ceph_usage_points, mon_accepted_types)
       THEN /\ mon_messages' =
                  Append(mon_messages,
                         create_message(ceph_ring_id, ceph_usage_points))
            /\ mon_trace' = <<"create_message", "send_message">>
            /\ ceph_usage_points' \in {ceph_usage_points, <<>>}
       ELSE /\ mon_messages' = mon_messages
            /\ mon_trace' = <<>>
            /\ UNCHANGED ceph_usage_points
    /\ UNCHANGED <<ceph_active, ceph_has_rados, ceph_config, ceph_ring_id,
                   ceph_persist, ceph_stats, mon_time, mon_accepted_types>>

\* a _should_run() that looks at the library only
should_run_ignoring_config(active, has_rados, ceph_conf) ==
    IF ~active
    THEN [result |-> FALSE, active |-> active, log |-> <<>>]
    ELSE IF ~has_rados
    THEN [result |-> FALSE, active |-> FALSE,
          log |-> <<"log:This machine does not appear to be a Ceph machine. Deactivating plugin.">>]
    ELSE [result |-> TRUE, active |-> active, log |-> <<>>]

\* _should_run(): its result, the plugin's active flag afterwards and what
\* it logged
should_run(active, has_rados, ceph_conf) ==
    IF ~active
    THEN [result |-> FALSE, active |-> active, log |-> <<>>]
    ELSE IF ~has_rados
    THEN [result |-> FALSE, active |-> FALSE,
          log |-> <<"log:This machine does not appear to be a Ceph machine. Deactivating plugin.">>]
    ELSE IF ceph_conf = None
    THEN [result |-> FALSE, active |-> active, log |-> <<>>]
    ELSE [result |-> TRUE, active |-> active, log |-> <<>>]

\* run(): _should_run(), then the cluster's ring id and statistics go to
\* _handle_usage
Run(stats) ==
    LET checked == should_run(ceph_active, ceph_has_rados, ceph_config)
    IN  /\ mon_op' = "run"
        /\ ceph_active' = checked.active
        /\ IF checked.result
           THEN /\ ceph_ring_id' = "ring"
                /\ ceph_usage_points' =
                      handled_points(ceph_usage_points, ceph_persist, stats,
                                     mon_time)
                /\ ceph_persist' =
                      handled_persist(ceph_persist, stats, mon_time)
                /\ ceph_stats' = stats
                /\ mon_trace' = <<"_should_run:True", "_handle_usage">>
           ELSE /\ mon_trace' = <<"_should_run:False">> \o checked.log
                /\ UNCHANGED <<ceph_ring_id, ceph_usage_points, ceph_persist,
                               ceph_stats>>
        /\ UNCHANGED <<ceph_has_rados, ceph_config, mon_time,
                       mon_accepted_types, mon_messages>>

\* a _reset() that forgets the ring id only
reset_ring_id_only(ring_id, points) == [ring_id |-> None, points |-> points]

\* _reset(): the ring id and the usage points afterwards
reset(ring_id, points) == [ring_id |-> None, points |-> <<>>]

\* the reactor fires "resynchronize": the plugin's _reset()
Resynchronize ==
    /\ mon_op' = "resynchronize"
    /\ ceph_ring_id' = reset(ceph_ring_id, ceph_usage_points).ring_id
    /\ ceph_usage_points' = reset(ceph_ring_id, ceph_usage_points).points
    /\ mon_trace' = <<"_reset">>
    /\ UNCHANGED <<ceph_active, ceph_has_rados, ceph_config, ceph_persist,
                   ceph_stats, mon_time, mon_accepted_types, mon_messages>>

\* reactor.advance(seconds)
Advance(seconds) ==
    /\ mon_time + seconds <= MaxTime
    /\ mon_time' = mon_time + seconds
    /\ mon_op' = "advance"
    /\ mon_trace' = <<>>
    /\ UNCHANGED <<ceph_active, ceph_has_rados, ceph_config, ceph_ring_id,
                   ceph_usage_points, ceph_persist, ceph_stats,
                   mon_accepted_types, mon_messages>>

\* the server's accepted types reach the monitor's message store
MonitorAccepts(types) ==
    /\ mon_accepted_types' = types
    /\ mon_op' = "set_accepted_types"
    /\ mon_trace' = <<>>
    /\ UNCHANGED <<ceph_active, ceph_has_rados, ceph_config, ceph_ring_id,
                   ceph_usage_points, ceph_persist, ceph_stats, mon_time,
                   mon_messages>>

\* the monitor starts with the plugin added
InitMonitor ==
    /\ BrokerIdle
    /\ CliIdle
    /\ FsIdle
    /\ LibIdle
    /\ ceph_active = TRUE
    /\ ceph_has_rados \in BOOLEAN
    /\ ceph_config \in {None, "ceph.landscape-client.conf"}
    /\ ceph_ring_id = None
    /\ ceph_usage_points = <<>>
    /\ ceph_persist = <<>>
    /\ ceph_stats = NoStats
    /\ mon_time = 0
    /\ mon_accepted_types = {}
    /\ mon_messages = <<>>
    /\ mon_op = "init"
    /\ mon_trace = <<>>

NextMonitor ==
    \/ Exchange /\ UNCHANGED notmonitor
    \/ \E stats \in StatsSamples : Run(stats) /\ UNCHANGED notmonitor
    \/ Resynchronize /\ UNCHANGED notmonitor
    \/ \E seconds \in {150, 300} : Advance(seconds) /\ UNCHANGED notmonitor
    \/ \E types \in {{}, {"ceph"}, {"ceph", "test"}} :
          MonitorAccepts(types) /\ UNCHANGED notmonitor

SpecMonitor == InitMonitor /\ [][NextMonitor]_vars

\* ------------------------------------------------------------------------
\* Properties of the storage-usage plugin
\* ------------------------------------------------------------------------
\* C20: an exchange cycle queues exactly one message of type 'ceph', with
\* the plugin's ring id and its accumulated usages, when the plugin has
\* usage points and the server accepts 'ceph'; it queues none when the
\* point list is empty and none when 'ceph' is not accepted.
C20_Exchange ==
    [][mon_op' = "exchange" =>
          IF ceph_usage_points # <<>> /\ "ceph" \in mon_accepted_types
          THEN /\ Len(mon_messages') = Len(mon_messages) + 1
               /\ mon_messages'[Len(mon_messages')] =
                    [type |-> "ceph", ring_id |-> ceph_ring_id,
                     usages |-> ceph_usage_points]
               /\ SubSeq(mon_messages', 1, Len(mon_messages)) = mon_messages
          ELSE mon_messages' = mon_messages]_vars

C20_Witness ==
    /\ mon_op = "exchange"
    /\ "ceph" \in mon_accepted_types
    /\ ceph_usage_points = << <<300, 10, 8, 2>> >>
    /\ mon_messages = << [type |-> "ceph", ring_id |-> "ring",
                          usages |-> << <<300, 10, 8, 2>> >>] >>

\* C21: _handle_usage appends no point on its first call; called at time 0
\* and again one interval later, at 300, with the same statistics, it
\* leaves exactly one point, timestamped 300, whose values are kb, kb_avail
\* and kb_used divided by 1024.
C21_HandleUsage ==
    [][(mon_op' = "run" /\ mon_trace'[1] = "_should_run:True") =>
          /\ DOMAIN ceph_persist = {} => ceph_usage_points' = ceph_usage_points
          /\ ( /\ DOMAIN ceph_persist # {}
               /\ \A key \in DOMAIN ceph_persist : ceph_persist[key][1] = 0
               /\ mon_time = 300
               /\ ceph_stats' = ceph_stats
               /\ ceph_usage_points = <<>> ) =>
                ceph_usage_points' =
                   << <<300, ceph_stats.kb \div 1024,
                        ceph_stats.kb_avail \div 1024,
                        ceph_stats.kb_used \div 1024>> >>]_vars

C21_Witness ==
    /\ mon_op = "run"
    /\ mon_time = 300
    /\ ceph_stats = [kb |-> 10240, kb_avail |-> 8192, kb_used |-> 2048]
    /\ ceph_usage_points = << <<300, 10, 8, 2>> >>
    /\ mon_messages = <<>>

\* C22: _should_run() is true exactly when the plugin is active, the
\* cluster client library is available and a config path is set; without
\* the library an active plugin deactivates itself, and a deactivated
\* plugin stays deactivated, so every later _should_run() is false.
C22_ShouldRun ==
    [][/\ mon_op' = "run" =>
             /\ mon_trace'[1] = "_should_run:True" <=>
                   (ceph_active /\ ceph_has_rados /\ ceph_config # None)
             /\ mon_trace'[1] \in {"_should_run:True", "_should_run:False"}
             /\ (ceph_active /\ ~ceph_has_rados) => ~ceph_active'
       /\ ~ceph_active => ~ceph_active']_vars

C22_Witness ==
    /\ mon_op = "run"
    /\ ~ceph_active
    /\ ~ceph_has_rados
    /\ ceph_config # None
    /\ mon_trace = <<"_should_run:False">>

\* C23: a firing of "resynchronize" calls the plugin's reset once and
\* leaves the ring id and the usage points cleared; an exchange cycle queues
\* no message as long as no new point is accumulated.
C23_Resynchronize ==
    [][/\ mon_op' = "resynchronize" =>
             /\ mon_trace' = <<"_reset">>
             /\ ceph_ring_id' = None
             /\ ceph_usage_points' = <<>>
       /\ (mon_op = "resynchronize" /\ mon_op' = "exchange") =>
             mon_messages' = mon_messages
       /\ (mon_op' = "exchange" /\ ceph_usage_points = <<>>) =>
             /\ mon_messages' = mon_messages
             /\ ceph_usage_points' = <<>>]_vars

C23_Witness ==
    /\ mon_op = "resynchronize"
    /\ ceph_usage_points = <<>>
    /\ ceph_ring_id = None
    /\ DOMAIN ceph_persist # {}
    /\ "ceph" \in mon_accepted_types
    /\ Len(mon_messages) = 1

\* ------------------------------------------------------------------------
\* A caller of get_vm_info
\* ------------------------------------------------------------------------
\* every marker path get_vm_info looks at, and the two substrings
Markers ==
    XenPaths \cup {"proc/vz", "proc/cpuinfo", "cpuinfo:QEMU",
                   "sys/class/dmi/id/sys_vendor", "sys_vendor:VMware"}

\* the roots that can exist: a file holds a substring only if it exists
Roots ==
    {markers \in SUBSET Markers :
        /\ "cpuinfo:QEMU" \in markers => "proc/cpuinfo" \in markers
        /\ "sys_vendor:VMware" \in markers =>
              "sys/class/dmi/id/sys_vendor" \in markers}

GetVmInfo ==
    /\ vm_op' = "get_vm_info"
    /\ vm_ret' = get_vm_info(vm_markers)
    /\ UNCHANGED vm_markers

notvm == <<processvars, clivars, fsvars, cephvars, schemavars, uivars>>

InitVm ==
    /\ BrokerIdle
    /\ CliIdle
    /\ FsIdle
    /\ MonitorIdle
    /\ SchemaIdle
    /\ UiIdle
    /\ vm_markers \in Roots
    /\ vm_op = "idle"
    /\ vm_ret = ""

NextVm == GetVmInfo /\ UNCHANGED notvm

SpecVm == InitVm /\ [][NextVm]_vars

Message(type, schema, optional) ==
    [type |-> type, schema |-> schema, optional |-> optional]

\* the schemas the loop at the end of the module puts into message_schemas,
\* in its order
Schemas ==
    << Message("active-process-info",
               "kill-processes" :> "List" @@ "kill-all-processes" :> "Bool"
               @@ "add-processes" :> "List" @@ "update-processes" :> "List",
               {"add-processes", "update-processes", "kill-processes",
                "kill-all-processes"}),
       Message("computer-uptime",
               "startup-times" :> "List" @@ "shutdown-times" :> "List",
               {"startup-times", "shutdown-times"}),
       Message("client-uptime",
               "period" :> "Tuple" @@ "components" :> "List",
               {"components"}),
       Message("operation-result",
               "operation-id" :> "Int" @@ "status" :> "Int"
               @@ "result-code" :> "Int" @@ "result-text" :> "utf8",
               {"result-code", "result-text"}),
       Message("computer-info",
               "hostname" :> "utf8" @@ "total-memory" :> "Int"
               @@ "total-swap" :> "Int",
               {"hostname", "total-memory", "total-swap"}),
       Message("distribution-info",
               "distributor-id" :> "utf8" @@ "description" :> "utf8"
               @@ "release" :> "utf8" @@ "code-name" :> "utf8",
               {"distributor-id", "description", "release", "code-name"}),
       Message("hardware-inventory", "devices" :> "List", {}),
       Message("load-average", "load-averages" :> "List", {}),
       Message("memory-info", "memory-info" :> "List", {}),
       Message("resynchronize", "operation-id" :> "Int", {"operation-id"}),
       Message("mount-activity", "activities" :> "List", {}),
       Message("mount-info", "mount-info" :> "List", {}),
       Message("free-space", "free-space" :> "List", {}),
       Message("register",
               "registration_password" :> "opt_str"
               @@ "computer_title" :> "utf8" @@ "hostname" :> "utf8"
               @@ "account_name" :> "utf8",
               {"registration_password", "hostname"}),
       Message("temperature",
               "thermal-zone" :> "utf8" @@ "temperatures" :> "List", {}),
       Message("processor-info", "processors" :> "List", {}),
       Message("users",
               "operation-id" :> "Int" @@ "create-users" :> "List"
               @@ "update-users" :> "List" @@ "delete-users" :> "List"
               @@ "create-groups" :> "List" @@ "update-groups" :> "List"
               @@ "delete-groups" :> "List"
               @@ "create-group-members" :> "Dict"
               @@ "delete-group-members" :> "Dict",
               {"operation-id", "create-users", "update-users",
                "delete-users", "create-groups", "update-groups",
                "delete-groups", "create-group-members",
                "delete-group-members"}),
       Message("packages",
               "installed" :> "List" @@ "available" :> "List"
               @@ "available-upgrades" :> "List" @@ "not-installed" :> "List"
               @@ "not-available" :> "List"
               @@ "not-available-upgrades" :> "List",
               {"installed", "available", "available-upgrades",
                "not-available", "not-installed", "not-available-upgrades"}),
       Message("change-packages-result",
               "operation-id" :> "Int" @@ "must-install" :> "List"
               @@ "must-remove" :> "List" @@ "result-code" :> "Int"
               @@ "result-text" :> "utf8",
               {"result-text", "must-install", "must-remove"}),
       Message("unknown-package-hashes",
               "hashes" :> "List" @@ "request-id" :> "Int", {}),
       Message("add-packages",
               "packages" :> "List" @@ "request-id" :> "Int", {}),
       Message("text-message", "message" :> "Unicode", {}),
       Message("test",
               "greeting" :> "String" @@ "consistency-error" :> "Bool"
               @@ "echo" :> "String" @@ "sequence" :> "Int",
               {"greeting", "consistency-error", "echo", "sequence"}),
       Message("custom-graph",
               "graph-data" :> "List" @@ "error-messages" :> "List",
               {"error-messages"}) >>

\* the keys of message_schemas
SchemaTypes == {Schemas[i].type : i \in DOMAIN Schemas}

\* message_schemas[type]: a later schema of a type replaces an earlier one
message_schemas(type) ==
    Schemas[CHOOSE i \in DOMAIN Schemas :
              /\ Schemas[i].type = type
              /\ \A j \in DOMAIN Schemas : Schemas[j].type = type => j <= i]

\* the kinds of value a validator lets through
value_kinds(validator) ==
    CASE validator = "Bool" -> {"bool"}
      [] validator = "Int" -> {"int"}
      [] validator = "Float" -> {"float"}
      [] validator = "String" -> {"str"}
      [] validator = "Unicode" -> {"unicode"}
      [] validator = "utf8" -> {"str", "unicode"}
      [] validator = "opt_str" -> {"str", "unicode", "none"}
      [] validator = "List" -> {"list"}
      [] validator = "Tuple" -> {"tuple"}
      [] validator = "Dict" -> {"dict"}

\* the fields a message of the schema must have
required(schema) == DOMAIN schema.schema \ schema.optional

\* a validation that rejects a field the schema does not declare
validates_declared_only(schema, payload) ==
    /\ required(schema) \subseteq DOMAIN payload
    /\ \A key \in DOMAIN payload :
          /\ key \in DOMAIN schema.schema
          /\ payload[key] \in value_kinds(schema.schema[key])

\* a message validates: every required field is there and every field the
\* schema declares matches its validator; other fields are let through
validates(schema, payload) ==
    /\ required(schema) \subseteq DOMAIN payload
    /\ \A key \in DOMAIN payload \cap DOMAIN schema.schema :
          payload[key] \in value_kinds(schema.schema[key])

\* the payloads at hand for a type: any of its fields and possibly a field
\* the schema does not know, with at most one value its validator rejects
Payloads(type) ==
    LET declared == DOMAIN message_schemas(type).schema
    IN  { [key \in present |->
             IF key = bad THEN "invalid"
             ELSE IF key \in declared
             THEN CHOOSE kind \in
                    value_kinds(message_schemas(type).schema[key]) : TRUE
             ELSE "str"] :
          <<present, bad>> \in
            { pb \in (SUBSET (declared \cup {"unknown-field"}))
                     \X (declared \cup {""}) :
                 pb[2] = "" \/ pb[2] \in pb[1] } }

Validate ==
    /\ sch_op' = "validate"
    /\ sch_ret' = validates(message_schemas(sch_type), sch_payload)
    /\ UNCHANGED <<sch_type, sch_payload>>

\* the same payload, one field removed
RemoveField(key) ==
    /\ sch_op = "validate"
    /\ sch_ret
    /\ key \in DOMAIN sch_payload
    /\ sch_payload' = [k \in DOMAIN sch_payload \ {key} |-> sch_payload[k]]
    /\ sch_op' = "remove"
    /\ sch_ret' = FALSE
    /\ UNCHANGED sch_type

notschema == <<processvars, clivars, fsvars, cephvars, vmvars, uivars>>

InitSchema ==
    /\ BrokerIdle
    /\ CliIdle
    /\ FsIdle
    /\ MonitorIdle
    /\ VmIdle
    /\ UiIdle
    /\ sch_type \in SchemaTypes
    /\ sch_payload \in Payloads(sch_type)
    /\ sch_op = "init"
    /\ sch_ret = FALSE

NextSchema ==
    \/ Validate /\ UNCHANGED notschema
    \/ \E key \in DOMAIN sch_payload : RemoveField(key) /\ UNCHANGED notschema

SpecSchema == InitSchema /\ [][NextSchema]_vars

\* the required fields of each type of the catalog, as the source declares
\* them: the fields of the schema that its optional list does not name
C25_Required ==
    "active-process-info" :> {} @@ "computer-uptime" :> {}
    @@ "client-uptime" :> {"period"}
    @@ "operation-result" :> {"operation-id", "status"}
    @@ "computer-info" :> {} @@ "distribution-info" :> {}
    @@ "hardware-inventory" :> {"devices"}
    @@ "load-average" :> {"load-averages"}
    @@ "memory-info" :> {"memory-info"} @@ "resynchronize" :> {}
    @@ "mount-activity" :> {"activities"} @@ "mount-info" :> {"mount-info"}
    @@ "free-space" :> {"free-space"}
    @@ "register" :> {"computer_title", "account_name"}
    @@ "temperature" :> {"thermal-zone", "temperatures"}
    @@ "processor-info" :> {"processors"} @@ "users" :> {}
    @@ "packages" :> {}
    @@ "change-packages-result" :> {"operation-id", "result-code"}
    @@ "unknown-package-hashes" :> {"hashes", "request-id"}
    @@ "add-packages" :> {"packages", "request-id"}
    @@ "text-message" :> {"message"} @@ "test" :> {}
    @@ "custom-graph" :> {"graph-data"}

\* C25: for every type of the catalog a payload with all required fields
\* and no invalid value validates, also with a field the schema does not
\* know, and a payload that lacks a required field does not validate; the
\* required fields are the declared fields outside the optional set.
C25_Validation ==
    sch_op = "validate" =>
        /\ sch_type \in DOMAIN C25_Required
        /\ ( /\ C25_Required[sch_type] \subseteq DOMAIN sch_payload
             /\ \A key \in DOMAIN sch_payload : sch_payload[key] # "invalid" )
              => sch_ret
        /\ (\E key \in C25_Required[sch_type] : key \notin DOMAIN sch_payload)
              => ~sch_ret

C25_Witness ==
    /\ sch_op = "validate"
    /\ sch_type = "register"
    /\ DOMAIN sch_payload = {"computer_title", "account_name", "unknown-field"}
    /\ sch_ret

\* ------------------------------------------------------------------------
\* The process records of active-process-info
\* ------------------------------------------------------------------------
\* KeyDict(schema, optional)
KeyDict(schema, optional) == [schema |-> schema, optional |-> optional]

\* a process record whose start-time may be left out as well
process_info_start_time_optional ==
    KeyDict("pid" :> "Int" @@ "name" :> "utf8" @@ "state" :> "String"
            @@ "sleep-average" :> "Int" @@ "uid" :> "Int" @@ "gid" :> "Int"
            @@ "vm-size" :> "Int" @@ "start-time" :> "Int"
            @@ "percent-cpu" :> "Float",
            {"vm-size", "sleep-average", "percent-cpu", "start-time"})

process_info ==
    KeyDict("pid" :> "Int" @@ "name" :> "utf8" @@ "state" :> "String"
            @@ "sleep-average" :> "Int" @@ "uid" :> "Int" @@ "gid" :> "Int"
            @@ "vm-size" :> "Int" @@ "start-time" :> "Int"
            @@ "percent-cpu" :> "Float",
            {"vm-size", "sleep-average", "percent-cpu"})

\* the records at hand as an item of add-processes or update-processes:
\* any of the declared fields, with at most one value its validator rejects
ProcessRecords ==
    LET declared == DOMAIN process_info.schema
    IN  { [key \in present |->
             IF key = bad THEN "invalid"
             ELSE CHOOSE kind \in value_kinds(process_info.schema[key]) : TRUE] :
          <<present, bad>> \in
            { pb \in (SUBSET declared) \X (declared \cup {""}) :
                 pb[2] = "" \/ pb[2] \in pb[1] } }

\* List(process_info) validates an item of the list
CoerceProcess ==
    /\ sch_op' = "coerce"
    /\ sch_ret' = validates(process_info, sch_payload)
    /\ UNCHANGED <<sch_type, sch_payload>>

\* the same record, one field removed
RemoveProcessField(key) ==
    /\ sch_op = "coerce"
    /\ sch_ret
    /\ key \in DOMAIN sch_payload
    /\ sch_payload' = [k \in DOMAIN sch_payload \ {key} |-> sch_payload[k]]
    /\ sch_op' = "remove"
    /\ sch_ret' = FALSE
    /\ UNCHANGED sch_type

InitProcessInfo ==
    /\ BrokerIdle
    /\ CliIdle
    /\ FsIdle
    /\ MonitorIdle
    /\ VmIdle
    /\ UiIdle
    /\ sch_type = "active-process-info"
    /\ sch_payload \in ProcessRecords
    /\ sch_op = "init"
    /\ sch_ret = FALSE

NextProcessInfo ==
    \/ CoerceProcess /\ UNCHANGED notschema
    \/ \E key \in DOMAIN sch_payload :
          RemoveProcessField(key) /\ UNCHANGED notschema

SpecProcessInfo == InitProcessInfo /\ [][NextProcessInfo]_vars

\* C35 as stated: a process record with pid, name, state, uid and gid and
\* none of sleep-average, vm-size, percent-cpu and start-time validates.
C35_AsStated ==
    (sch_op = "coerce"
       /\ DOMAIN sch_payload = {"pid", "name", "state", "uid", "gid"}
       /\ \A key \in DOMAIN sch_payload : sch_payload[key] # "invalid")
    => sch_ret

\* C35, amended: a process record requires pid, name, state, uid, gid and
\* start-time and treats sleep-average, vm-size and percent-cpu as
\* optional: a record with the six required fields and valid values
\* validates, with or without any of those three, and a record lacking one
\* of the six does not.
C35_ProcessRecord ==
    sch_op = "coerce" =>
        LET six == {"pid", "name", "state", "uid", "gid", "start-time"}
        IN  /\ (six \subseteq DOMAIN sch_payload
                 /\ \A key \in DOMAIN sch_payload : sch_payload[key] # "invalid")
                  => sch_ret
            /\ (\E key \in six : key \notin DOMAIN sch_payload) => ~sch_ret

C35_Witness ==
    /\ sch_op = "coerce"
    /\ DOMAIN sch_payload = {"pid", "name", "state", "uid", "gid", "start-time"}
    /\ \A key \in DOMAIN sch_payload : sch_payload[key] # "invalid"
    /\ sch_ret

\* ------------------------------------------------------------------------
\* The desktop settings application (landscape/ui/controller/app.py)
\* ------------------------------------------------------------------------
\* the callbacks setup_ui hands to controller.persist
Callbacks == {"on_notify", "on_error", "on_succeed", "on_fail"}

\* what Gtk's dialog.run() can answer
Responses == {"OK", "CANCEL", "DELETE_EVENT"}

\* the notification a callback shows
notification(callback) ==
    CASE callback = "on_notify" -> "notify:message"
      [] callback = "on_error" -> "notify:error message"
      [] callback = "on_succeed" -> "notify:Success"
      [] callback = "on_fail" -> "notify:Fail"

\* controller.persist(...), which calls back before it returns
persisted(callbacks) ==
    <<"persist">> \o [i \in DOMAIN callbacks |-> notification(callbacks[i])]

\* controller.exit(asynchronous=asynchronous)
exited(asynchronous) ==
    IF asynchronous THEN "exit:asynchronous=True"
    ELSE "exit:asynchronous=False"

\* a setup_ui that leaves the dialog alone unless the operator accepts
dialog_answered_accept_only(response, callbacks, asynchronous) ==
    IF response = "OK"
    THEN <<"notify:Sending registration request.">>
         \o persisted(callbacks)
         \o <<"notify:Registration request sent.">>
         \o <<exited(asynchronous), "settings_dialog.destroy">>
    ELSE <<>>

\* setup_ui once settings_dialog.run() has answered
dialog_answered(response, callbacks, asynchronous) ==
    (IF response = "OK"
     THEN <<"notify:Sending registration request.">>
          \o persisted(callbacks)
          \o <<"notify:Registration request sent.">>
     ELSE <<>>)
    \o <<exited(asynchronous), "settings_dialog.destroy">>

\* the "activate" signal: setup_ui up to controller.load()
Activate(asynchronous) ==
    /\ ui_pc = "idle"
    /\ ui_pc' = "load"
    /\ ui_asynchronous' = asynchronous
    /\ ui_trace' = <<"Notify.init", "get_config", "get_uisettings",
                     "ConfigurationModel", "ConfigController", "load">>
    /\ UNCHANGED ui_stderr

\* controller.load() answers; the dialog is built and run, or the failure
\* is written to sys.stderr
Load(ok) ==
    /\ ui_pc = "load"
    /\ IF ok
       THEN /\ ui_pc' = "dialog"
            /\ ui_trace' = ui_trace \o <<"load:True", "ClientSettingsDialog",
                                        "settings_dialog.run">>
            /\ UNCHANGED ui_stderr
       ELSE /\ ui_pc' = "done"
            /\ ui_trace' = Append(ui_trace, "load:False")
            /\ ui_stderr' = Append(ui_stderr, "Authentication failed.\n")
    /\ UNCHANGED ui_asynchronous

\* settings_dialog.run() answers and setup_ui runs to its end
DialogRun(response, callbacks) ==
    /\ ui_pc = "dialog"
    /\ response # "OK" => callbacks = <<>>
    /\ ui_pc' = "done"
    /\ ui_trace' = ui_trace \o <<"response:" \o response>>
                   \o dialog_answered(response, callbacks, ui_asynchronous)
    /\ UNCHANGED <<ui_asynchronous, ui_stderr>>

\* the callbacks persist makes before it returns
CallbackRuns ==
    UNION {[1..n -> Callbacks] : n \in 0..MaxCallbacks}

notui == <<processvars, clivars, fsvars, cephvars, vmvars, schemavars>>

InitUi ==
    /\ BrokerIdle
    /\ CliIdle
    /\ FsIdle
    /\ MonitorIdle
    /\ VmIdle
    /\ SchemaIdle
    /\ UiIdle

NextUi ==
    \/ \E asynchronous \in BOOLEAN : Activate(asynchronous) /\ UNCHANGED notui
    \/ \E ok \in BOOLEAN : Load(ok) /\ UNCHANGED notui
    \/ \E response \in Responses, callbacks \in CallbackRuns :
          DialogRun(response, callbacks) /\ UNCHANGED notui

SpecUi == InitUi /\ [][NextUi]_vars

\* C26: when load succeeds, the controller's exit runs exactly once and the
\* dialog is destroyed after it, on accept and on cancel; persist runs only
\* on accept, once, after the "Sending registration request." notification
\* and before the "Registration request sent." one; when load fails there
\* is no dialog, no persist and no exit.
C26_SetupUi ==
    LET at(entry) == {i \in DOMAIN ui_trace : ui_trace[i] = entry}
        exits == at("exit:asynchronous=True") \cup at("exit:asynchronous=False")
        destroys == at("settings_dialog.destroy")
        persists == at("persist")
        sending == at("notify:Sending registration request.")
        request_sent == at("notify:Registration request sent.")
    IN  ui_pc = "done" =>
          IF at("load:True") # {}
          THEN /\ Cardinality(exits) = 1
               /\ Cardinality(destroys) = 1
               /\ \A e \in exits, d \in destroys : e < d
               /\ IF at("response:OK") # {}
                  THEN /\ Cardinality(persists) = 1
                       /\ sending # {}
                       /\ request_sent # {}
                       /\ \A s \in sending, p \in persists,
                             t \in request_sent :
                             s < p /\ p < t
                  ELSE persists = {}
          ELSE /\ at("ClientSettingsDialog") = {}
               /\ at("settings_dialog.run") = {}
               /\ persists = {}
               /\ exits = {}

C26_Witness ==
    /\ ui_pc = "done"
    /\ \E i \in DOMAIN ui_trace : ui_trace[i] = "response:CANCEL"
    /\ ui_trace[Len(ui_trace)] = "settings_dialog.destroy"
    /\ ui_trace[Len(ui_trace) - 1] = "exit:asynchronous=True"

\* ------------------------------------------------------------------------
\* Properties of the registration handler around an exchange
\* ------------------------------------------------------------------------
\* C27: a pre-exchange tick at which should_register() is false records the
\* snapshot and does nothing else: the queue is as it was, nothing is sent,
\* nothing is fired or called, and secure_id and insecure_id are as they
\* were.
C27_NotEligible ==
    [][(op' = "pre-exchange" /\ ~should_register) =>
          /\ self_should_register' = "False"
          /\ messages' = messages
          /\ next_id' = next_id
          /\ sent' = <<>>
          /\ trace' = <<>>
          /\ responses' = responses
          /\ secure_id' = secure_id
          /\ insecure_id' = insecure_id]_vars

\* such a tick with two messages queued and a registration awaited
C27_Witness ==
    /\ op = "pre-exchange"
    /\ self_should_register = "False"
    /\ ~Truthy(secure_id)
    /\ Len(messages) = 2
    /\ trace = <<>>

\* C28: once a pre-exchange has stored its snapshot, exchange-done asks for
\* another exchange exactly when should_register() is true now and the
\* snapshot is false; with a true snapshot (the registration message went
\* out in this exchange) it asks for none.
C28_ExchangeDone ==
    [][(op' = "exchange-done" /\ self_should_register # None) =>
          /\ trace' = <<"exchange">> <=>
                (should_register /\ self_should_register = "False")
          /\ trace' \in {<<>>, <<"exchange">>}
          /\ self_should_register = "True" => trace' = <<>>]_vars

\* an exchange-done after an eligible pre-exchange, registration unanswered
C28_Witness ==
    /\ op = "exchange-done"
    /\ self_should_register = "True"
    /\ should_register
    /\ Len(messages) = 1
    /\ trace = <<>>

\* the case of C29: unregistered, with a title and an account name
C29_Case ==
    /\ ~Truthy(secure_id)
    /\ Truthy(config.computer_title)
    /\ Truthy(config.account_name)

\* the exchange-done of the first exchange, which made "register" accepted
\* after a pre-exchange that found the computer not eligible, asks for a
\* second exchange
C29_Schedules(case) ==
    (op' = "exchange-done" /\ case /\ self_should_register = "False"
       /\ "register" \in accepted_types)
    => trace' = <<"exchange">>

\* the pre-exchange of that second exchange sends the registration message
C29_Sends(case) ==
    (op = "exchange-done" /\ trace = <<"exchange">> /\ case
       /\ op' = "pre-exchange")
    => /\ self_should_register' = "True"
       /\ Len(sent') = 1
       /\ sent'[1].type = "register"
       /\ trace'[Len(trace')] = "send"

\* a set-id that answers it leaves the handler registered
C29_Registered(case) ==
    (op = "pre-exchange" /\ sent # <<>> /\ case /\ op' = "set-id")
    => /\ secure_id' = arg'["id"]
       /\ Truthy(arg'["id"]) => ~should_register'

\* C29 as stated: with a title and an account name, the steps above
C29_AsStated ==
    [][/\ C29_Schedules(C29_Case)
       /\ C29_Sends(C29_Case)
       /\ C29_Registered(C29_Case)]_vars

\* C29, amended: the same when no provisioning one-time-password is
\* configured: the first exchange makes "register" accepted, exchange-done
\* asks for a second exchange, whose pre-exchange sends the registration
\* message, and a set-id reply leaves the handler registered.
C29_SecondExchange ==
    [][/\ C29_Schedules(C29_Case /\ ~Truthy(config.provisioning_otp))
       /\ C29_Sends(C29_Case /\ ~Truthy(config.provisioning_otp))
       /\ C29_Registered(C29_Case /\ ~Truthy(config.provisioning_otp))]_vars

\* registered by a set-id, the registration message still queued
C29_Witness ==
    /\ op = "set-id"
    /\ secure_id = "A"
    /\ self_should_register = "True"
    /\ Truthy(config.computer_title)
    /\ Truthy(config.account_name)
    /\ ~Truthy(config.provisioning_otp)
    /\ accepted_types = {"register"}
    /\ Len(messages) = 1
    /\ messages[1].message.type = "register"

\* C30 as stated: an eligible machine with a provisioning one-time-password
\* sends, at pre-exchange, a message of type "register-provisioned-machine"
\* that carries the one-time-password and nothing else.
C30_AsStated ==
    (op = "pre-exchange" /\ Truthy(config.provisioning_otp)
       /\ self_should_register = "True")
    => sent = << [type |-> "register-provisioned-machine",
                  otp |-> config.provisioning_otp] >>

\* C31: a "registration" message with info "unknown-account" fires
\* "registration-failed" once and leaves the ids and the message queue as
\* they were; with any other info nothing is fired.
C31_Registration ==
    [][op' = "registration" =>
          /\ trace' = IF arg'.info = "unknown-account"
                      THEN <<"fire:registration-failed">> ELSE <<>>
          /\ arg'.info # "unknown-account" => responses' = responses
          /\ secure_id' = secure_id
          /\ insecure_id' = insecure_id
          /\ messages' = messages
          /\ sent' = <<>>]_vars

\* an unknown account reported to a waiting register() call, with the
\* registration message queued
C31_Witness ==
    /\ op = "registration"
    /\ arg.info = "unknown-account"
    /\ trace = <<"fire:registration-failed">>
    /\ Len(messages) = 1
    /\ Len(responses) = 1
    /\ responses[1].deferred = "InvalidCredentialsError"

\* ------------------------------------------------------------------------
\* landscape-config: what setup() writes and restarts
\* ------------------------------------------------------------------------
AbortText == "exit:Aborting Landscape configuration"

\* the place of the first call x in a run, 0 when it has none
First(seq, x) ==
    IF Has(seq, x) THEN CHOOSE i \in DOMAIN seq :
                          seq[i] = x /\ \A j \in 1..(i - 1) : seq[j] # x
    ELSE 0

\* main() ran setup(), and setup() was not aborted
C32_Case == Loaded /\ ~cli_config.disable /\ ~Has(cli_trace, AbortText)

\* C32: a setup() run that is not aborted writes the configuration exactly
\* once, in silent and interactive mode alike, and before the restart; the
\* restart is attempted exactly once when no_start is unset, and with
\* no_start set no call on the service controller is made at all.
C32_WriteOnce ==
    C32_Case =>
        /\ Count(cli_trace, "write") = 1
        /\ ~cli_config.no_start =>
              /\ Count(cli_trace, "restart_landscape") = 1
              /\ First(cli_trace, "write") < First(cli_trace, "restart_landscape")
        /\ cli_config.no_start =>
              \A i \in DOMAIN cli_trace : cli_trace[i] \notin ServiceCalls

C32_Witness ==
    /\ C32_Case
    /\ ~cli_config.silent
    /\ cli_config.no_start
    /\ Count(cli_trace, "write") = 1
    /\ Has(cli_trace, "raw_input:register:yes")

\* the runs of setup() that abort: a silent one without account name or
\* computer title, or one where the operator declines start-on-boot
C33_Case ==
    /\ Loaded /\ ~cli_config.disable
    /\ \/ cli_config.silent
          /\ (~Truthy(cli_config.account_name)
               \/ ~Truthy(cli_config.computer_title))
       \/ \E a \in Answers :
             /\ declines(a)
             /\ Has(cli_trace, "raw_input:start-on-boot:" \o Join("", a))

\* C33: a setup() run that aborts, for a silent configuration without
\* account name or computer title or for an operator who declines
\* start-on-boot, neither writes the configuration nor restarts the
\* service, and main() ends with the abort.
C33_AbortWritesNothing ==
    C33_Case =>
        /\ ~Has(cli_trace, "write")
        /\ ~Has(cli_trace, "restart_landscape")
        /\ Has(cli_trace, AbortText)
        /\ cli_pc = "exited"

C33_Witness ==
    /\ C33_Case
    /\ cli_config.silent
    /\ ~cli_config.no_start
    /\ cli_config.account_name = "acct"
    /\ cli_config.computer_title = None
    /\ cli_trace[2] = "set_start_on_boot:True"
    /\ Has(cli_trace, AbortText)

\* C34 as stated: after a silent setup() that returned with script_users
\* set, "ScriptExecution" is among include_manager_plugins, whatever the
\* list held before.
C34_AsStated ==
    (Loaded /\ ~cli_config.disable /\ cli_config.silent /\ SetupReturned
       /\ Truthy(cli_config.script_users))
    => \E i \in DOMAIN cli_config.include_manager_plugins :
          cli_config.include_manager_plugins[i] = "ScriptExecution"

\* C36 as stated: whenever the pre-exchange handler sends a message of type
\* "register", the message store accepts "register" and the message carries
\* a non-empty computer_title and account_name, for every configuration,
\* also one with a provisioning one-time-password next to the account name.
C36_AsStated ==
    op = "pre-exchange" =>
        \A i \in DOMAIN sent :
            sent[i].type = "register" =>
                /\ "register" \in accepted_types
                /\ Truthy(sent[i].computer_title)
                /\ Truthy(sent[i].account_name)

\* two register() calls are waiting for the server's reply
C37_BothWaiting ==
    /\ Len(responses) = 2
    /\ \A i \in DOMAIN responses : responses[i].deferred = "unresolved"

\* C37: a second register() before any reply returns a future of its own
\* and leaves both responses subscribed to both signals; the first
\* "registration-done" or "registration-failed" then resolves both futures
\* with the same outcome, each once, and cancels all four subscriptions.
C37_TwoRegisters ==
    [][/\ (op' = "register" /\ Len(responses) = 1
            /\ responses[1].deferred = "unresolved") =>
              /\ ret'.value = 2
              /\ C37_BothWaiting'
              /\ \A i \in DOMAIN responses' :
                    responses'[i].done_id /\ responses'[i].failed_id
       /\ C37_BothWaiting =>
              \A i \in DOMAIN responses :
                  /\ responses'[i].deferred = Outcome(trace')
                  /\ responses'[i].already_called = 0
                  /\ Outcome(trace') = "unresolved" =>
                        responses'[i].done_id /\ responses'[i].failed_id
                  /\ Outcome(trace') # "unresolved" =>
                        ~responses'[i].done_id /\ ~responses'[i].failed_id]_vars

C37_Witness ==
    /\ op = "registration"
    /\ trace = <<"fire:registration-failed">>
    /\ Len(responses) = 2
    /\ \A i \in DOMAIN responses :
          /\ responses[i].deferred = "InvalidCredentialsError"
          /\ responses[i].already_called = 0
          /\ ~responses[i].done_id /\ ~responses[i].failed_id

\* C38: while secure_id is set, a pre-exchange or exchange-done leaves the
\* handler registered: should_register() is false, the snapshot a
\* pre-exchange stores is false, no queued message is purged, no message is
\* sent, no exchange is asked for and both ids stay; the secure id changes
\* only with a set-id or unknown-id message or a register() call.
C38_StaysRegistered ==
    [][/\ (Truthy(secure_id) /\ op' \in {"pre-exchange", "exchange-done"}) =>
              /\ ~should_register
              /\ op' = "pre-exchange" => self_should_register' = "False"
              /\ messages' = messages
              /\ sent' = <<>>
              /\ trace' = <<>>
              /\ secure_id' = secure_id
              /\ insecure_id' = insecure_id
              /\ ~should_register'
       /\ secure_id' # secure_id =>
              op' \in {"set-id", "unknown-id", "register"}]_vars

\* a registered handler at pre-exchange, with messages queued and the
\* store accepting the registration types
C38_Witness ==
    /\ op = "pre-exchange"
    /\ secure_id = "A"
    /\ self_should_register = "False"
    /\ Len(messages) = 2
    /\ RegisterTypes \subseteq accepted_types
    /\ Truthy(config.provisioning_otp)
    /\ trace = <<>>

\* ------------------------------------------------------------------------
\* The identity under register(), the server's id messages and exchanges
\* ------------------------------------------------------------------------
\* the set-id messages that carry a non-empty id
NonEmptySetIdMessages == { message \in SetIdMessages : Truthy(message["id"]) }

InitIdentity ==
    \E cfg \in { Config("web", "acct", None, PlainExtras),
                 Config(None, "", "otp", PlainExtras) } : Start(cfg, {}, None)

NextIdentity ==
    \/ Register /\ UNCHANGED outside
    \/ \E message \in NonEmptySetIdMessages :
          HandleSetId(message) /\ UNCHANGED outside
    \/ \E message \in UnknownIdMessages :
          HandleUnknownId(message) /\ UNCHANGED outside
    \/ HandlePreExchange /\ UNCHANGED outside
    \/ HandleExchangeDone /\ UNCHANGED outside
    \/ \E types \in {{}, RegisterTypes} : SetAcceptedTypes(types) /\ UNCHANGED outside

SpecIdentity == InitIdentity /\ [][NextIdentity]_vars

\* C39: in every state reached from absent ids by register() calls, set-id
\* messages with a non-empty id, unknown-id messages and exchanges,
\* insecure_id is set only if secure_id is set.
C39_InsecureOnlyWithSecure == Truthy(insecure_id) => Truthy(secure_id)

\* both ids adopted again after the registration was asked for twice
C39_Witness ==
    /\ op = "set-id"
    /\ secure_id = "B"
    /\ insecure_id = "7"
    /\ Len(responses) = 2
    /\ responses[2].deferred = "success"

\* ------------------------------------------------------------------------
\* landscape-config: the end of reactor.run()
\* ------------------------------------------------------------------------
\* the step is the register call failing with the given failure
C40_RegisterFails(failure) ==
    /\ Len(cli_trace') > Len(cli_trace)
    /\ cli_trace'[Len(cli_trace) + 1] = "errback:register:" \o failure

\* C40 as stated: once the bus connection is established, every run of
\* register() eventually stops the reactor, whatever the five calls on the
\* broker end with and also when no signal is delivered.
C40_AsStated == (cli_pc = "running") ~> (cli_pc = "returned")

\* C40, amended: once the bus connection is established, the run stops the
\* reactor eventually when a call on the broker fails with a failure that
\* handle_registration_errors does not take, and at once when a signal is
\* delivered; the reactor is stopped by nothing else, and a register call
\* that fails with NoReplyError or InvalidCredentialsError is taken without
\* stopping it or scheduling a stop.
C40_StopsWhenCaughtOrSignalled ==
    /\ (cli_pc = "stopping") ~> (cli_pc = "returned")
    /\ [][/\ (cli_pc = "running" /\ cli_pc' = "stopping") =>
                 /\ Len(caught') = Len(caught) + 1
                 /\ cli_trace'[Len(cli_trace')] = "callLater:reactor.stop"
          /\ (cli_pc \in {"running", "stopping"} /\ cli_pc' = "returned") =>
                 /\ cli_trace'[Len(cli_trace')] = "reactor.stop"
                 /\ \/ cli_pc = "stopping" /\ Len(cli_trace') = Len(cli_trace) + 1
                    \/ \E k \in DOMAIN SignalNames :
                          cli_trace'[Len(cli_trace) + 1] = "signal:" \o SignalNames[k]
          /\ \A failure \in {"NoReplyError", "InvalidCredentialsError"} :
                 C40_RegisterFails(failure) =>
                     /\ cli_pc' = cli_pc
                     /\ caught' = caught
                     /\ ~Has(SubSeq(cli_trace', Len(cli_trace) + 1, Len(cli_trace')),
                             "callLater:reactor.stop")]_vars

\* every call was answered, the register call with a failure that was
\* taken, and the reactor is still running
C40_Witness ==
    /\ cli_pc = "running"
    /\ \A i \in DOMAIN deferreds : deferreds[i] = "ok"
    /\ Has(cli_trace, "errback:register:NoReplyError")
    /\ caught = <<>>
====
